---- MODULE Spec2Model ----
(***************************************************************************)
(* A model of the harvesting code of the social scrapers:                  *)
(*   - the comment harvest of tiktok_comment.py and of                     *)
(*     TikTokStandaloneScraper (page fetch, pagination loop, batch loop),  *)
(*   - the video harvests of tiktok_query.py / tiktok_standalone.py,       *)
(*   - the profile scroll of tiktok_page.py,                               *)
(*   - the record normalizers (Instagram posts, TikTok engagement).        *)
(* Each part has its own specification; the variables of the other parts   *)
(* stay at their initial values.                                           *)
(***************************************************************************)
EXTENDS Integers, Sequences, FiniteSets, TLC

(***************************************************************************)
(* Bounds of the model                                                     *)
(***************************************************************************)
\* comment identifiers are 1..MaxCommentId
MaxCommentId == 2
\* a comment page carries at most MaxPageLen comments
MaxPageLen == 1
\* continuation cursors are 0..MaxCursor
MaxCursor == 1
\* max_pages / max_comment_pages ranges over 0..MaxPagesBound
MaxPagesBound == 4
\* a batch holds 1..MaxBatch videos
MaxBatch == 2
\* video identifiers are 1..MaxVideoId
MaxVideoId == 2
\* a captured video response carries at most MaxItems items
MaxItems == 2
\* at most MaxResponses video responses are captured in one harvest
MaxResponses == 2
\* max_videos ranges over 0..MaxVideosBound
MaxVideosBound == 2
\* the last MaxScrollSteps steps of the profile scroll loop are numbered
MaxScrollSteps == 152
\* document.body.scrollHeight ranges over 1..MaxHeight
MaxHeight == 2
\* a profile response carries at most MaxProfileItems items
MaxProfileItems == 1
\* the video identifiers of a profile are 1..MaxProfileId
MaxProfileId == 1
\* at most MaxPending _collect tasks are suspended at the same time
MaxPending == 2
\* the raw ids of the identifier test are the numbers 1..MaxRawId, as a number
\* or as a string, and at most MaxRawLen items arrive
MaxRawId == 2
MaxRawLen == 3
\* an engagement rate is computed of totals 0..MaxEngagement over follower or
\* view counts 0..MaxDenominator
MaxEngagement == 3
MaxDenominator == 8
\* a text holds at most MaxTokens hashtags or mentions, of the words
\* 1..MaxWord, each in lower case or capitalized
MaxTokens == 3
MaxWord == 2
\* raw texts are up to MaxSlack characters shorter or longer than a cap, and
\* hold up to MaxEscapes escaped line breaks (a backslash and an n)
MaxSlack == 3
MaxEscapes == 2
\* a hashtag comes with at most MaxRollupPosts raw posts, with ids up to
\* MaxPostId, like and comment counts up to MaxCount, owners up to MaxOwner
MaxRollupPosts == 2
MaxPostId == 2
MaxCount == 1
MaxOwner == 1
\* the relevance filter gets at most MaxFilterPosts posts and classifies them
\* in batches of at most MaxFilterBatch
MaxFilterPosts == 3
MaxFilterBatch == 2

(***************************************************************************)
(* Program constants                                                       *)
(***************************************************************************)
\* tiktok_comment.py: @retry(stop=stop_after_attempt(5))
TC_MAX_ATTEMPTS == 5
\* tiktok_standalone.py: @retry(stop=stop_after_attempt(3))
SA_MAX_ATTEMPTS == 3
\* tiktok_query.py, tiktok_standalone.py (scrape_query): for i in range(5)
QUERY_SCROLLS == 5
\* tiktok_standalone.py (scrape_page): max_scrolls = 15
MAX_SCROLLS == 15
\* tiktok_standalone.py (scrape_page): max_idle = 5
MAX_IDLE == 5
\* tiktok_page.py: MAX_IDLE_STEPS = 150
MAX_IDLE_STEPS == 150
\* _extract_hashtags / _extract_mentions: list(set(...))[:30]
TAG_LIMIT == 30
\* caption[:2000] of a post, caption[:500] of a post inside a hashtag record
CAPTION_LIMIT == 2000
EXCERPT_LIMIT == 500
\* row['topPosts'][:10], row['latestPosts'][:10]
ROLLUP_POSTS_LIMIT == 10

(***************************************************************************)
(* Generic helpers                                                         *)
(***************************************************************************)
SeqsUpTo(S, n) == UNION {[1..k -> S] : k \in 0..n}

Range(s) == {s[k] : k \in 1..Len(s)}

\* number of positions of s that hold x
Count(s, x) == Cardinality({k \in 1..Len(s) : s[k] = x})

(***************************************************************************)
(* The comment transport: what one HTTP GET of /api/comment/list/ can give *)
(***************************************************************************)
CommentIds == 1..MaxCommentId

\* the raw has_more field: 1, 0, absent, or a value int() rejects
HasMoreRaw == {"1", "0", "missing", "bad"}

\* the fields of a decoded JSON body that the harvest reads
Pages == {p \in [comments : SeqsUpTo(CommentIds, MaxPageLen),
                 has_more : HasMoreRaw,
                 has_cursor : BOOLEAN,
                 cursor : 0..MaxCursor] : (~p.has_cursor) => p.cursor = 0}

\* {"comments": [], "has_more": 0}
EmptyPage == [comments |-> <<>>, has_more |-> "0", has_cursor |-> FALSE, cursor |-> 0]

\* a response: an exception of requests (timeout, connection error), or a status
\* code with a body that is JSON, empty, or not JSON
OkResponses == [exc : {"none"}, status : {200}, body : {"json"}, page : Pages]

FailedResponses ==
    [exc : {"Timeout", "ConnectionError"}, status : {0}, body : {"empty"}, page : {EmptyPage}]
    \cup [exc : {"none"}, status : {429, 503, 401, 404}, body : {"not_json"}, page : {EmptyPage}]
    \cup [exc : {"none"}, status : {200}, body : {"empty", "not_json"}, page : {EmptyPage}]

Responses == OkResponses \cup FailedResponses

\* the failures a retry can cure: rate limit, server error, timeout, connection
\* error, empty or non-JSON body
TransientFailure(r) ==
    \/ r.exc # "none"
    \/ r.status \in {429, 503}
    \/ r.status = 200 /\ r.body # "json"

\* authentication rejected, resource not found
PermanentFailure(r) == r.exc = "none" /\ r.status \in {401, 404}

Failed(r) == TransientFailure(r) \/ PermanentFailure(r)

Return(d) == [kind |-> "return", exc |-> "none", data |-> d]
Raise(e) == [kind |-> "raise", exc |-> e, data |-> EmptyPage]

\* tiktok_comment._safe_json
safe_json(resp) ==
    IF resp.status = 200
    THEN IF resp.body = "empty" THEN Raise("TikTokJSONError")
         ELSE IF resp.body = "json" THEN Return(resp.page)
         ELSE Raise("TikTokJSONError")
    ELSE Raise("TikTokHTTPError")

\* the body of tiktok_comment.fetch_page: SESSION.get, _safe_json, and the
\* except Exception clause that answers every failure with an empty page
fetch_page_body(resp) ==
    LET tried == IF resp.exc # "none" THEN Raise("RequestException")
                 ELSE safe_json(resp)
    IN  IF tried.kind = "raise" THEN Return(EmptyPage) ELSE tried

\* the body of TikTokStandaloneScraper._fetch_comment_page after the base query
\* string was found: session.get, resp.json() on status 200, and the except
\* Exception clause
fetch_comment_page_body(resp) ==
    LET tried == IF resp.exc # "none" THEN Raise("RequestException")
                 ELSE IF resp.status = 200
                      THEN IF resp.body = "json" THEN Return(resp.page)
                           ELSE Raise("RequestException")
                      ELSE Return(EmptyPage)
    IN  IF tried.kind = "raise" THEN Return(EmptyPage) ELSE tried

\* tenacity's decision after one attempt: return the value, retry, or reraise
RetryDecision(res, attempt, max_attempts, retry_on) ==
    IF res.kind = "return" THEN "return"
    ELSE IF res.exc \notin retry_on THEN "reraise"
    ELSE IF attempt >= max_attempts THEN "reraise"
    ELSE "retry"

TC_RETRY_ON == {"RequestException", "TikTokHTTPError", "TikTokJSONError"}
SA_RETRY_ON == {"RequestException"}

(***************************************************************************)
(* State                                                                   *)
(***************************************************************************)
VARIABLES
    impl,            \* which batch runs: "tiktok_comment", "standalone",
                     \* "tiktok_page" or "tiktok_query"
    video_list,      \* the targets of the batch, in order (video_list, videos,
                     \* pages, queries)
    max_pages,       \* max_pages / self.max_comment_pages
    comments_baseqs, \* TIKTOK_COMMENTS_BASEQS is set
    pc,              \* where the batch is
    i,               \* index of the current video in video_list
    cursor, page, total_fetched,
    all_comments,    \* comment ids emitted for the current video, in order
    data,            \* what the page fetch returned
    attempt_number,  \* tenacity's attempt counter of the running page fetch
    call_log,        \* the responses of the network calls of the last page fetch
    fetches,         \* page fetches issued for the current video
    has_more_log,    \* per processed page of the current video: has_more was 1
    crawl_state,     \* the row save_crawl_state last wrote for the current video
    slept,           \* a rate-limit sleep happened since the last page fetch
    attempted,       \* the targets whose harvest was started, in order
    total_comments,  \* the batch's running total (total_comments, total_videos)
    failed_targets,  \* indexes of the targets whose harvest met a failure
    \* ---- the video harvest of one search query or one page
    vimpl,           \* "tiktok_query", "standalone_query" or "standalone_page"
    max_videos,      \* max_videos / self.max_videos
    vpc,             \* "goto", "loop" or "done"
    api_responses,   \* the captured responses (scrape_search_url, scrape_query)
    videos_data,     \* the video_id of each record collected so far, in order
    processed_ids,   \* the dedup set
    scroll_count,    \* i of for i in range(5); scroll_count of scrape_page
    idle_count, prev_count,
    result,          \* the list the harvest returned
    deliveries,      \* per video id: how often a valid item with it was handed to
                     \* the response processing (counted up to 2)
    handed,          \* responses that arrived so far
    malformed_ids,   \* video ids that were handed with fields the normalizer rejects
    \* ---- the profile harvest of tiktok_page.scrape_profile
    ppc,             \* "goto", "scroll" (an iteration of _scroll is running),
                     \* "wait" (the wait after _scroll) or "done"
    items, seen,     \* the collected raw items (their ids, in order) and the set
    done,            \* the asyncio.Event
    idle, h_prev,    \* the locals of _scroll
    n_steps,         \* the number of the newest scroll step (see StepsAfter)
    last_change,     \* the last step at which the height differed from the one
                     \* before it (0: none yet)
    pending,         \* the _collect tasks suspended at await resp.text()
    \* ---- one run of a record normalizer
    normalizer,      \* the normalizer that runs
    normalized,      \* it has run
    tt_raw, tt_row,  \* a raw TikTok item and the row made of it
    ig_raw, ig_row,  \* a raw Instagram DataFrame row and the post record made of it
    \* ---- one call of TikTokStandaloneScraper.scrape
    spc,             \* where scrape is
    input_str,       \* the kind of input it was given
    scrape_comments, \* self.scrape_comments
    s_videos,        \* result['videos']
    s_comments,      \* result['comments'], in the order of the videos
    network_accessed, \* a page was opened or a request was sent
    escaped          \* the exception that left scrape, "none" if none did

cvars == <<impl, video_list, max_pages, comments_baseqs, pc, i, cursor, page,
           total_fetched, all_comments, data, attempt_number, call_log, fetches,
           has_more_log, crawl_state, slept, attempted, total_comments, failed_targets>>

vvars == <<vimpl, max_videos, vpc, api_responses, videos_data, processed_ids,
           scroll_count, idle_count, prev_count, result, deliveries, handed,
           malformed_ids>>

pvars == <<ppc, items, seen, done, idle, h_prev, n_steps, last_change, pending>>

nvars == <<normalizer, normalized, tt_raw, tt_row, ig_raw, ig_row>>

svars == <<spc, input_str, scrape_comments, s_videos, s_comments, network_accessed,
           escaped>>

VARIABLES
    \* ---- the identifier test of the video paths on one sequence of raw items
    d_impl,          \* the path that runs
    d_raw,           \* the raw ids of the items that arrive, in order
    d_k,             \* how many of them were looked at
    d_seen,          \* processed_ids / seen
    d_emitted        \* the video ids of the emitted records, in order

dvars == <<d_impl, d_raw, d_k, d_seen, d_emitted>>

VARIABLES
    \* ---- one computation of an engagement rate
    r_impl,          \* the normalizer that computes it
    r_total,         \* the engagement total
    r_den,           \* the raw follower count (view count for tiktok_standalone)
    r_rate           \* the engagement_rate of the record

rvars == <<r_impl, r_total, r_den, r_rate>>

VARIABLES
    \* ---- one call of _extract_hashtags / _extract_mentions
    h_fn,            \* the function that runs
    h_found,         \* what re.findall gave: the tokens of the text, in order
    h_done,          \* the function has returned
    h_result         \* the list it returned

hvars == <<h_fn, h_found, h_done, h_result>>

VARIABLES
    \* ---- one normalization of a free-text field
    t_fn,            \* the normalizer that runs
    t_raw,           \* the raw text
    t_done,          \* the normalizer has built its record
    t_out            \* the length of the text in the record

tvars == <<t_fn, t_raw, t_done, t_out>>

VARIABLES
    \* ---- one build of a hashtag record
    g_fn,            \* the function that builds it
    g_top,           \* the raw topPosts of the hashtag
    g_latest,        \* the raw latestPosts of the hashtag / the rows of posts
    g_done,          \* the function has returned
    g_record         \* the record it built, NoRecord if it built none

gvars == <<g_fn, g_top, g_latest, g_done, g_record>>

VARIABLES
    \* ---- one call of RelevanceFilter.filter_content
    f_pc,                \* where filter_content is
    total_posts,         \* len(posts); the posts are 1..total_posts
    batch_size,          \* self.batch_size
    f_i,                 \* the posts before the batch that is classified next
    all_classifications, \* the classifications returned so far, in order
    relevant_posts, borderline_posts, irrelevant_posts   \* the three lists of the result

fvars == <<f_pc, total_posts, batch_size, f_i, all_classifications,
           relevant_posts, borderline_posts, irrelevant_posts>>

\* the state of the functions that are checked on their own
xvars == <<dvars, rvars, hvars, tvars, gvars, fvars>>

vars == <<cvars, vvars, pvars, nvars, svars, xvars>>

Videos == {"v1", "v2"}

NoState == [saved |-> FALSE, last_cursor |-> 0, has_more |-> FALSE, total |-> 0]

VideoIds == 1..MaxVideoId

\* the video harvest is not running
VIdle ==
    /\ vimpl = "none" /\ max_videos = 0 /\ vpc = "done"
    /\ api_responses = <<>> /\ videos_data = <<>> /\ processed_ids = {}
    /\ scroll_count = 0 /\ idle_count = 0 /\ prev_count = 0
    /\ result = <<>>
    /\ deliveries = [v \in VideoIds |-> 0]
    /\ handed = 0
    /\ malformed_ids = {}

\* the profile harvest is not running
PIdle ==
    /\ ppc = "done" /\ items = <<>> /\ seen = {} /\ done = FALSE
    /\ idle = 0 /\ h_prev = 0 /\ n_steps = 0 /\ last_change = 0 /\ pending = 0

\* raw values: a field that is missing, None, an int, a numeric string (v is its
\* value), a non-numeric string, or a float NaN
Missing == [t |-> "missing", v |-> 0]
None == [t |-> "none", v |-> 0]
NaN == [t |-> "nan", v |-> 0]
IntVal(n) == [t |-> "int", v |-> n]
StrVal(n) == [t |-> "str", v |-> n]
Text == [t |-> "text", v |-> 0]

NoTikTokItem ==
    [digg |-> [v2 |-> Missing, v1 |-> Missing], comment |-> [v2 |-> Missing, v1 |-> Missing],
     share |-> [v2 |-> Missing, v1 |-> Missing], repost |-> [v2 |-> Missing, v1 |-> Missing],
     followerCount |-> Missing]

NoTikTokRow ==
    [emitted |-> FALSE, like_count |-> None, comment_count |-> None,
     share_count |-> None, repost_count |-> None, total_engagement |-> None]

NoInstagramItem ==
    [type |-> "absent", id |-> "absent", pk |-> "absent", shortCode |-> "absent",
     code |-> "absent", likesCount |-> "absent", caption |-> "absent"]

NoInstagramRow ==
    [emitted |-> FALSE, id_from |-> "none", likes_count |-> 0, caption |-> ""]

\* no normalizer is running
NIdle ==
    /\ normalizer = "none" /\ normalized = FALSE
    /\ tt_raw = NoTikTokItem /\ tt_row = NoTikTokRow
    /\ ig_raw = NoInstagramItem /\ ig_row = NoInstagramRow

\* the identifier test is not running
DIdle ==
    /\ d_impl = "none" /\ d_raw = <<>> /\ d_k = 0 /\ d_seen = {} /\ d_emitted = <<>>

\* a rate in hundredths of a percent, None, and the value of a record that
\* was not made
Rate(h) == [t |-> "number", v |-> h]
NoRate == [t |-> "unset", v |-> 0]

RIdle == r_impl = "none" /\ r_total = 0 /\ r_den = Missing /\ r_rate = NoRate

HIdle == h_fn = "none" /\ h_found = <<>> /\ h_done = FALSE /\ h_result = <<>>

TIdle == t_fn = "none" /\ t_raw = [kind |-> "none"] /\ t_done = FALSE /\ t_out = 0

NoRecord == [built |-> FALSE]

GIdle == g_fn = "none" /\ g_top = <<>> /\ g_latest = <<>> /\ g_done = FALSE
         /\ g_record = NoRecord

FIdle == /\ f_pc = "idle" /\ total_posts = 0 /\ batch_size = 1 /\ f_i = 0
         /\ all_classifications = <<>>
         /\ relevant_posts = <<>> /\ borderline_posts = <<>> /\ irrelevant_posts = <<>>

XIdle == DIdle /\ RIdle /\ HIdle /\ TIdle /\ GIdle /\ FIdle

\* scrape is not running
SIdle ==
    /\ spc = "done" /\ input_str = "none" /\ scrape_comments = FALSE
    /\ s_videos = <<>> /\ s_comments = <<>>
    /\ network_accessed = FALSE /\ escaped = "none"

\* the comment harvest is not running
CIdle ==
    /\ impl = "none" /\ video_list = <<>> /\ max_pages = 0 /\ comments_baseqs = TRUE
    /\ pc = "done" /\ i = 0
    /\ cursor = 0 /\ page = 0 /\ total_fetched = 0
    /\ all_comments = <<>>
    /\ data = EmptyPage
    /\ attempt_number = 0
    /\ call_log = <<>>
    /\ fetches = 0
    /\ has_more_log = <<>>
    /\ crawl_state = NoState
    /\ slept = TRUE
    /\ attempted = <<>>
    /\ total_comments = 0
    /\ failed_targets = {}

(***************************************************************************)
(* The comment harvest                                                     *)
(***************************************************************************)
CInit ==
    /\ impl \in {"tiktok_comment", "standalone", "tiktok_page", "tiktok_query"}
    /\ video_list \in {s \in SeqsUpTo(Videos, MaxBatch) : Len(s) >= 1}
    /\ max_pages \in 0..MaxPagesBound
    /\ comments_baseqs \in BOOLEAN
    /\ (impl # "standalone") => comments_baseqs
    /\ (impl \in {"tiktok_page", "tiktok_query"}) => max_pages = 0
    /\ pc = "batch"
    /\ i = 0
    /\ cursor = 0 /\ page = 0 /\ total_fetched = 0
    /\ all_comments = <<>>
    /\ data = EmptyPage
    /\ attempt_number = 0
    /\ call_log = <<>>
    /\ fetches = 0
    /\ has_more_log = <<>>
    /\ crawl_state = NoState
    /\ slept = TRUE
    /\ attempted = <<>>
    /\ total_comments = 0
    /\ failed_targets = {}
    /\ VIdle /\ PIdle /\ NIdle /\ SIdle /\ XIdle

\* the locals of scrape_comments_for_video go out of scope when it returns
LocalsDropped ==
    /\ cursor' = 0 /\ page' = 0 /\ total_fetched' = 0
    /\ all_comments' = <<>>
    /\ data' = EmptyPage
    /\ call_log' = <<>>
    /\ fetches' = 0 /\ has_more_log' = <<>>
    /\ crawl_state' = NoState

\* tiktok_comment.scrape_comments_for_video: if page >= max_pages or not has_more: break
tc_loop_ends_at_cap_only(p, mp, hm) == p >= mp

tc_loop_ends(p, mp, hm) == p >= mp \/ ~hm

\* tiktok_comment.scrape_comments_for_video: except Exception: break. The harvest of
\* the video returns to the batch loop
tc_exception_escapes == "raised"

tc_on_exception == "return"

\* TikTokStandaloneScraper.scrape_comments_for_video: if not has_more: break
sa_loop_breaks(hm) == ~hm

\* TikTokStandaloneScraper.scrape_comments_for_video: except Exception: break
sa_on_exception == "return"

\* the comments of a page are added to what the harvest of the video has so
\* far: insert_comments and total_fetched += len(comments) in tiktok_comment,
\* all_comments.append(...) for each comment in the standalone scraper
extend_comments_replaces(so_far, comments) == comments

extend_comments(so_far, comments) == so_far \o comments

\* tiktok_comment.scrape_comments_for_video: return total_fetched. The count is
\* all the caller gets
tc_harvest_result(total) == total

\* the batch loops, after the harvest of video k of n:
\* if i < len(video_list): time.sleep(1 + random.uniform(0, 0.5))
never_sleeps_between_videos(k, n) == FALSE

sleeps_between_videos(k, n) == k < n

\* the head of the for loop of scrape_comments_for_batch and the entry of
\* scrape_comments_for_video: cursor, page, total_fetched = 0, 0, 0; while True
tc_batch_next_video ==
    /\ impl = "tiktok_comment" /\ pc = "batch" /\ i < Len(video_list)
    /\ i' = i + 1
    /\ attempted' = Append(attempted, video_list[i + 1])
    /\ cursor' = 0 /\ page' = 0 /\ total_fetched' = 0
    /\ all_comments' = <<>>
    /\ fetches' = 0 /\ has_more_log' = <<>> /\ call_log' = <<>>
    /\ crawl_state' = NoState
    /\ attempt_number' = 0
    /\ pc' = "fetch"
    /\ UNCHANGED <<vvars, pvars, nvars, svars, xvars, impl, video_list, max_pages, comments_baseqs, data, slept,
                   total_comments, failed_targets>>

\* one attempt of the retry-wrapped fetch_page(video_id, cursor)
tc_fetch_page ==
    /\ impl = "tiktok_comment" /\ pc = "fetch"
    /\ \E resp \in Responses :
         LET res == fetch_page_body(resp)
             decision == RetryDecision(res, attempt_number + 1, TC_MAX_ATTEMPTS, TC_RETRY_ON)
         IN  /\ call_log' = IF attempt_number = 0 THEN <<resp>> ELSE Append(call_log, resp)
             /\ fetches' = IF attempt_number = 0 THEN fetches + 1 ELSE fetches
             /\ failed_targets' = IF Failed(resp) THEN failed_targets \cup {i}
                                  ELSE failed_targets
             /\ slept' = FALSE
             /\ CASE decision = "return" ->
                       /\ data' = res.data /\ attempt_number' = 0 /\ pc' = "process"
                  [] decision = "retry" ->
                       /\ data' = data /\ attempt_number' = attempt_number + 1 /\ pc' = "fetch"
                  [] decision = "reraise" ->
                       /\ data' = data /\ attempt_number' = 0 /\ pc' = "return"
    /\ UNCHANGED <<vvars, pvars, nvars, svars, xvars, impl, video_list, max_pages, comments_baseqs, i, cursor, page,
                   total_fetched, all_comments, has_more_log, crawl_state,
                   attempted, total_comments>>

\* the rest of one iteration of the while True loop of
\* tiktok_comment.scrape_comments_for_video
tc_scrape_comments_for_video ==
    /\ impl = "tiktok_comment" /\ pc = "process"
    /\ all_comments' = extend_comments(all_comments, data.comments)
    /\ total_fetched' = total_fetched + Len(data.comments)
    /\ IF data.has_more = "bad"
       THEN \* int() raises: except Exception: break
            /\ pc' = tc_on_exception
            /\ failed_targets' = failed_targets \cup {i}
            /\ UNCHANGED <<page, cursor, crawl_state, slept, has_more_log>>
       ELSE LET has_more == (data.has_more = "1")
                next_cursor == data.cursor
            IN  /\ page' = page + 1
                /\ slept' = TRUE
                /\ has_more_log' = Append(has_more_log, has_more)
                /\ crawl_state' = [saved |-> TRUE, last_cursor |-> next_cursor,
                                   has_more |-> has_more,
                                   total |-> total_fetched + Len(data.comments)]
                /\ UNCHANGED failed_targets
                /\ IF tc_loop_ends(page + 1, max_pages, has_more)
                   THEN pc' = "return" /\ cursor' = cursor
                   ELSE pc' = "fetch" /\ cursor' = next_cursor
    /\ UNCHANGED <<vvars, pvars, nvars, svars, xvars, impl, video_list, max_pages, comments_baseqs, i, data,
                   attempt_number, call_log, fetches, attempted, total_comments>>

\* the tail of one iteration of the for loop of scrape_comments_for_batch
tc_scrape_comments_for_batch ==
    /\ impl = "tiktok_comment" /\ pc = "return"
    /\ total_comments' = total_comments + total_fetched
    /\ slept' = (slept \/ sleeps_between_videos(i, Len(video_list)))
    /\ pc' = IF i < Len(video_list) THEN "batch" ELSE "done"
    /\ LocalsDropped
    /\ UNCHANGED <<vvars, pvars, nvars, svars, xvars, impl, video_list, max_pages, comments_baseqs, i, attempt_number,
                   attempted, failed_targets>>

\* the head of the for loop of TikTokStandaloneScraper.scrape and the entry of
\* its scrape_comments_for_video: all_comments = [], cursor = 0, page = 0, and the
\* first test of while page < self.max_comment_pages
sa_scrape_next_video ==
    /\ impl = "standalone" /\ pc = "batch" /\ i < Len(video_list)
    /\ i' = i + 1
    /\ attempted' = Append(attempted, video_list[i + 1])
    /\ cursor' = 0 /\ page' = 0 /\ total_fetched' = 0
    /\ all_comments' = <<>>
    /\ fetches' = 0 /\ has_more_log' = <<>> /\ call_log' = <<>>
    /\ crawl_state' = NoState
    /\ attempt_number' = 0
    /\ pc' = IF 0 < max_pages THEN "fetch" ELSE "return"
    /\ UNCHANGED <<vvars, pvars, nvars, svars, xvars, impl, video_list, max_pages, comments_baseqs, data, slept,
                   total_comments, failed_targets>>

\* one attempt of the retry-wrapped _fetch_comment_page(video_id, cursor)
sa_fetch_comment_page ==
    /\ impl = "standalone" /\ pc = "fetch"
    /\ fetches' = IF attempt_number = 0 THEN fetches + 1 ELSE fetches
    /\ slept' = FALSE
    /\ IF ~comments_baseqs
       THEN \* if not self.comments_baseqs: return {'comments': [], 'has_more': 0}
            /\ data' = EmptyPage /\ attempt_number' = 0 /\ pc' = "process"
            /\ call_log' = <<>>
            /\ UNCHANGED failed_targets
       ELSE \E resp \in Responses :
              LET res == fetch_comment_page_body(resp)
                  decision == RetryDecision(res, attempt_number + 1, SA_MAX_ATTEMPTS, SA_RETRY_ON)
              IN  /\ call_log' = IF attempt_number = 0 THEN <<resp>> ELSE Append(call_log, resp)
                  /\ failed_targets' = IF Failed(resp) THEN failed_targets \cup {i}
                                       ELSE failed_targets
                  /\ CASE decision = "return" ->
                            /\ data' = res.data /\ attempt_number' = 0 /\ pc' = "process"
                       [] decision = "retry" ->
                            /\ data' = data /\ attempt_number' = attempt_number + 1 /\ pc' = "fetch"
                       [] decision = "reraise" ->
                            /\ data' = data /\ attempt_number' = 0 /\ pc' = "return"
    /\ UNCHANGED <<vvars, pvars, nvars, svars, xvars, impl, video_list, max_pages, comments_baseqs, i, cursor, page,
                   total_fetched, all_comments, has_more_log, crawl_state,
                   attempted, total_comments>>

\* the rest of one iteration of while page < self.max_comment_pages of
\* TikTokStandaloneScraper.scrape_comments_for_video, and the next test of the
\* loop condition
sa_scrape_comments_for_video ==
    /\ impl = "standalone" /\ pc = "process"
    /\ all_comments' = extend_comments(all_comments, data.comments)
    /\ total_fetched' = total_fetched + Len(data.comments)
    /\ IF data.has_more = "bad"
       THEN \* int() raises: except Exception: break
            /\ pc' = sa_on_exception
            /\ failed_targets' = failed_targets \cup {i}
            /\ UNCHANGED <<page, cursor, slept, has_more_log>>
       ELSE LET has_more == (data.has_more = "1")
            IN  /\ has_more_log' = Append(has_more_log, has_more)
                /\ UNCHANGED failed_targets
                /\ IF sa_loop_breaks(has_more)
                   THEN /\ pc' = "return"
                        /\ UNCHANGED <<page, cursor, slept>>
                   ELSE /\ cursor' = data.cursor
                        /\ page' = page + 1
                        /\ slept' = TRUE
                        /\ pc' = IF page + 1 < max_pages THEN "fetch" ELSE "return"
    /\ UNCHANGED <<vvars, pvars, nvars, svars, xvars, impl, video_list, max_pages, comments_baseqs, i, data,
                   attempt_number, call_log, fetches, crawl_state, attempted,
                   total_comments>>

\* the tail of one iteration of the for loop of TikTokStandaloneScraper.scrape
sa_scrape ==
    /\ impl = "standalone" /\ pc = "return"
    /\ total_comments' = total_comments + Len(all_comments)
    /\ slept' = (slept \/ sleeps_between_videos(i, Len(video_list)))
    /\ pc' = IF i < Len(video_list) THEN "batch" ELSE "done"
    /\ LocalsDropped
    /\ UNCHANGED <<vvars, pvars, nvars, svars, xvars, impl, video_list, max_pages, comments_baseqs, i, attempt_number,
                   attempted, failed_targets>>

\* what the harvest of one profile or one search query can end with: videos, no
\* video, or an exception (the browser fails to start, save_to_supabase throws, ...)
HarvestOutcomes == {"videos", "no_videos", "raised"}

\* tiktok_page.main: except Exception as e: ...; continue
tp_on_exception(next) == next

\* tiktok_query.main: except Exception as e: ...; continue
tq_on_exception(next) == next

\* one iteration of for page_info in pages of tiktok_page.main
tp_main ==
    /\ impl = "tiktok_page" /\ pc = "batch" /\ i < Len(video_list)
    /\ i' = i + 1
    /\ attempted' = Append(attempted, video_list[i + 1])
    /\ \E outcome \in HarvestOutcomes :
         LET next == IF i + 1 < Len(video_list) THEN "batch" ELSE "done"
         IN  /\ failed_targets' = IF outcome = "raised" THEN failed_targets \cup {i + 1}
                                  ELSE failed_targets
             /\ total_comments' = IF outcome = "videos" THEN total_comments + 1
                                  ELSE total_comments
             /\ pc' = IF outcome = "raised" THEN tp_on_exception(next) ELSE next
    /\ UNCHANGED <<vvars, pvars, nvars, svars, xvars, impl, video_list, max_pages, comments_baseqs, cursor, page,
                   total_fetched, all_comments, data, attempt_number, call_log,
                   fetches, has_more_log, crawl_state, slept>>

\* one iteration of for query_info in queries of tiktok_query.main
tq_main ==
    /\ impl = "tiktok_query" /\ pc = "batch" /\ i < Len(video_list)
    /\ i' = i + 1
    /\ attempted' = Append(attempted, video_list[i + 1])
    /\ \E outcome \in HarvestOutcomes :
         LET next == IF i + 1 < Len(video_list) THEN "batch" ELSE "done"
         IN  /\ failed_targets' = IF outcome = "raised" THEN failed_targets \cup {i + 1}
                                  ELSE failed_targets
             /\ total_comments' = IF outcome = "videos" THEN total_comments + 1
                                  ELSE total_comments
             /\ pc' = IF outcome = "raised" THEN tq_on_exception(next) ELSE next
    /\ UNCHANGED <<vvars, pvars, nvars, svars, xvars, impl, video_list, max_pages, comments_baseqs, cursor, page,
                   total_fetched, all_comments, data, attempt_number, call_log,
                   fetches, has_more_log, crawl_state, slept>>

CNext ==
    \/ tc_batch_next_video
    \/ tc_fetch_page
    \/ tc_scrape_comments_for_video
    \/ tc_scrape_comments_for_batch
    \/ sa_scrape_next_video
    \/ sa_fetch_comment_page
    \/ sa_scrape_comments_for_video
    \/ sa_scrape
    \/ tp_main
    \/ tq_main

SpecComment == CInit /\ [][CNext]_vars

(***************************************************************************)
(* The video harvest of one search query (tiktok_query.scrape_search_url,  *)
(* TikTokStandaloneScraper.scrape_query) or of one page                    *)
(* (TikTokStandaloneScraper.scrape_page)                                   *)
(***************************************************************************)
\* a raw entry of itemList / of a type-1 section: a video object (id 0 stands for
\* an id that is None; fields_ok is false when a field makes the normalizer
\* throw), an object without an id key, a non-empty value that is no object, or
\* an empty one (None, {})
VItems ==
    [kind : {"video"}, id : VideoIds, fields_ok : BOOLEAN]
    \cup [kind : {"video", "no_id_key", "not_dict", "falsy"}, id : {0}, fields_ok : {TRUE}]

VResponses == SeqsUpTo(VItems, MaxItems)

\* a valid raw item: the normalizer makes a record with a video id of it
ValidItem(item) == item.kind = "video" /\ item.id # 0 /\ item.fields_ok

\* tiktok_query._extract_video_data: a record (here its video_id), or None when a
\* field access throws
extract_video_data(item) ==
    IF item.fields_ok THEN [some |-> TRUE, video_id |-> item.id]
    ELSE [some |-> FALSE, video_id |-> 0]

\* TikTokStandaloneScraper._parse_video_from_api: None for an id that is missing
\* or None, and when a field access throws
parse_video_from_api(item) ==
    IF item.kind # "video" \/ item.id = 0 THEN [some |-> FALSE, video_id |-> 0]
    ELSE IF item.fields_ok THEN [some |-> TRUE, video_id |-> item.id]
    ELSE [some |-> FALSE, video_id |-> 0]

\* the two scanning loops of _process_api_response: an item whose id is not in
\* processed_ids is put in videos_found and its id is added to processed_ids;
\* item.get on a non-object and item['id'] on an object without id throw
RECURSIVE MarkNew(_, _, _, _)
MarkNew(item_list, k, found, processed) ==
    IF k > Len(item_list) THEN [found |-> found, processed |-> processed, raised |-> FALSE]
    ELSE LET item == item_list[k]
         IN  IF item.kind = "falsy" THEN MarkNew(item_list, k + 1, found, processed)
             ELSE IF item.kind = "not_dict"
             THEN [found |-> found, processed |-> processed, raised |-> TRUE]
             ELSE IF item.id \in processed THEN MarkNew(item_list, k + 1, found, processed)
             ELSE IF item.kind = "no_id_key"
             THEN [found |-> Append(found, item), processed |-> processed, raised |-> TRUE]
             ELSE MarkNew(item_list, k + 1, Append(found, item), processed \cup {item.id})

\* for item in videos_found: video_data = normalizer(item); if video_data: append
RECURSIVE Normalized(_, _, _)
Normalized(found, k, standalone) ==
    IF k > Len(found) THEN <<>>
    ELSE LET rec == IF standalone THEN parse_video_from_api(found[k])
                    ELSE extract_video_data(found[k])
         IN  (IF rec.some THEN <<rec.video_id>> ELSE <<>>)
             \o Normalized(found, k + 1, standalone)

\* _process_api_response of tiktok_query (standalone = FALSE) and of
\* tiktok_standalone (standalone = TRUE): an exception leaves the try block
\* before any found item is normalized
process_api_response(item_list, videos, processed, standalone) ==
    LET m == MarkNew(item_list, 1, <<>>, processed)
    IN  [processed |-> m.processed,
         videos |-> IF m.raised THEN videos
                    ELSE videos \o Normalized(m.found, 1, standalone)]

\* for response_data in api_responses: self._process_api_response(...)
RECURSIVE ProcessAll(_, _, _, _, _)
ProcessAll(resps, k, videos, processed, standalone) ==
    IF k > Len(resps) THEN [videos |-> videos, processed |-> processed]
    ELSE LET st == process_api_response(resps[k], videos, processed, standalone)
         IN  ProcessAll(resps, k + 1, st.videos, st.processed, standalone)

\* handle_response of scrape_page: every new item is normalized at once and its
\* id is added only when a record was made; the handler returns when max_videos
\* is reached; item.get on a non-object throws and ends the handler
RECURSIVE HandleItems(_, _, _, _, _)
HandleItems(item_list, k, videos, processed, cap) ==
    IF k > Len(item_list) THEN [videos |-> videos, processed |-> processed]
    ELSE LET item == item_list[k]
         IN  IF item.kind = "falsy" THEN HandleItems(item_list, k + 1, videos, processed, cap)
             ELSE IF item.kind = "not_dict" THEN [videos |-> videos, processed |-> processed]
             ELSE IF item.id \in processed THEN HandleItems(item_list, k + 1, videos, processed, cap)
             ELSE LET rec == parse_video_from_api(item)
                  IN  IF ~rec.some THEN HandleItems(item_list, k + 1, videos, processed, cap)
                      ELSE IF Len(videos) + 1 >= cap
                      THEN [videos |-> Append(videos, rec.video_id),
                            processed |-> processed \cup {item.id}]
                      ELSE HandleItems(item_list, k + 1, Append(videos, rec.video_id),
                                       processed \cup {item.id}, cap)

\* the handler of scrape_page on each of the responses that arrive
RECURSIVE HandleAll(_, _, _, _, _)
HandleAll(resps, k, videos, processed, cap) ==
    IF k > Len(resps) THEN [videos |-> videos, processed |-> processed]
    ELSE LET st == HandleItems(resps[k], 1, videos, processed, cap)
         IN  HandleAll(resps, k + 1, st.videos, st.processed, cap)

\* videos_data[:max_videos] for max_videos >= 0
SliceTo(seq, n) == SubSeq(seq, 1, IF Len(seq) < n THEN Len(seq) ELSE n)

\* how often a valid item with id v occurs in the responses
RECURSIVE Occurrences(_, _, _)
Occurrences(resps, k, v) ==
    IF k > Len(resps) THEN 0
    ELSE Cardinality({j \in 1..Len(resps[k]) :
                        ValidItem(resps[k][j]) /\ resps[k][j].id = v})
         + Occurrences(resps, k + 1, v)

Delivered(resps) ==
    [v \in VideoIds |-> LET n == deliveries[v] + Occurrences(resps, 1, v)
                        IN  IF n > 2 THEN 2 ELSE n]

Malformed(resps) ==
    malformed_ids \cup {v \in VideoIds : \E k \in 1..Len(resps) : \E j \in 1..Len(resps[k]) :
                           /\ resps[k][j].kind = "video"
                           /\ resps[k][j].id = v
                           /\ ~resps[k][j].fields_ok}

\* the responses that can arrive during one browser call
Arrivals == {a \in SeqsUpTo(VResponses, 1) : handed + Len(a) <= MaxResponses}

VInit ==
    /\ vimpl \in {"tiktok_query", "standalone_query", "standalone_page"}
    /\ max_videos \in 0..MaxVideosBound
    /\ vpc = "goto"
    /\ api_responses = <<>> /\ videos_data = <<>> /\ processed_ids = {}
    /\ scroll_count = 0 /\ idle_count = 0 /\ prev_count = 0
    /\ result = <<>>
    /\ deliveries = [v \in VideoIds |-> 0]
    /\ handed = 0
    /\ malformed_ids = {}
    /\ CIdle /\ PIdle /\ NIdle /\ SIdle /\ XIdle

\* while len(videos_data) < self.max_videos and scroll_count < max_scrolls
\*       and idle_count < max_idle
sp_loop_runs(n, sc, idle_now) == n < max_videos /\ sc < MAX_SCROLLS /\ idle_now < MAX_IDLE

\* page.goto(...) with the response listener attached; an exception of the
\* browser ends the harvest with what was collected
v_goto ==
    /\ vpc = "goto"
    /\ \E arrive \in Arrivals, raised \in BOOLEAN :
         IF vimpl = "standalone_page"
         THEN LET st == HandleAll(arrive, 1, videos_data, processed_ids, max_videos)
              IN  /\ videos_data' = st.videos
                  /\ processed_ids' = st.processed
                  /\ deliveries' = Delivered(arrive)
                  /\ malformed_ids' = Malformed(arrive)
                  /\ handed' = handed + Len(arrive)
                  /\ api_responses' = api_responses
                  /\ vpc' = IF ~raised /\ sp_loop_runs(Len(st.videos), 0, 0)
                            THEN "loop" ELSE "done"
                  /\ result' = IF ~raised /\ sp_loop_runs(Len(st.videos), 0, 0)
                               THEN result ELSE SliceTo(st.videos, max_videos)
         ELSE /\ api_responses' = api_responses \o arrive
              /\ handed' = handed + Len(arrive)
              /\ vpc' = IF raised THEN "done" ELSE "loop"
              /\ UNCHANGED <<videos_data, processed_ids, deliveries, malformed_ids, result>>
    /\ UNCHANGED <<cvars, pvars, nvars, svars, xvars, vimpl, max_videos, scroll_count, idle_count, prev_count>>

\* one iteration of for i in range(5) of scrape_search_url / scrape_query:
\* scroll, process every captured response, leave when max_videos is reached
QueryIteration(standalone) ==
    /\ vpc = "loop"
    /\ \E arrive \in Arrivals, raised \in BOOLEAN :
         IF raised
         THEN /\ vpc' = "done"
              /\ result' = SliceTo(videos_data, max_videos)
              /\ api_responses' = api_responses \o arrive
              /\ handed' = handed + Len(arrive)
              /\ UNCHANGED <<videos_data, processed_ids, deliveries, malformed_ids, scroll_count>>
         ELSE LET captured == api_responses \o arrive
                  st == ProcessAll(captured, 1, videos_data, processed_ids, standalone)
                  leave == Len(st.videos) >= max_videos \/ scroll_count + 1 >= QUERY_SCROLLS
              IN  /\ api_responses' = captured
                  /\ handed' = handed + Len(arrive)
                  /\ videos_data' = st.videos
                  /\ processed_ids' = st.processed
                  /\ deliveries' = Delivered(captured)
                  /\ malformed_ids' = Malformed(captured)
                  /\ scroll_count' = scroll_count + 1
                  /\ vpc' = IF leave THEN "done" ELSE "loop"
                  /\ result' = IF leave THEN SliceTo(st.videos, max_videos) ELSE result
    /\ UNCHANGED <<cvars, pvars, nvars, svars, xvars, vimpl, max_videos, idle_count, prev_count>>

tq_scrape_search_url == vimpl = "tiktok_query" /\ QueryIteration(FALSE)

sa_scrape_query == vimpl = "standalone_query" /\ QueryIteration(TRUE)

\* one iteration of the while loop of scrape_page: scroll (the handler runs on
\* the responses that arrive), count the step, and test the loop condition
sa_scrape_page ==
    /\ vimpl = "standalone_page" /\ vpc = "loop"
    /\ \E arrive \in Arrivals, raised \in BOOLEAN :
         LET st == HandleAll(arrive, 1, videos_data, processed_ids, max_videos)
             n == Len(st.videos)
             idle_now == IF n = prev_count THEN idle_count + 1 ELSE 0
             go == ~raised /\ sp_loop_runs(n, scroll_count + 1, idle_now)
         IN  /\ videos_data' = st.videos
             /\ processed_ids' = st.processed
             /\ deliveries' = Delivered(arrive)
             /\ malformed_ids' = Malformed(arrive)
             /\ handed' = handed + Len(arrive)
             /\ IF raised
                THEN UNCHANGED <<scroll_count, idle_count, prev_count>>
                ELSE /\ scroll_count' = scroll_count + 1
                     /\ idle_count' = idle_now
                     /\ prev_count' = IF n = prev_count THEN prev_count ELSE n
             /\ vpc' = IF go THEN "loop" ELSE "done"
             /\ result' = IF go THEN result ELSE SliceTo(st.videos, max_videos)
    /\ UNCHANGED <<cvars, pvars, nvars, svars, xvars, vimpl, max_videos, api_responses>>

VNext ==
    \/ v_goto
    \/ tq_scrape_search_url
    \/ sa_scrape_query
    \/ sa_scrape_page

SpecVideo == VInit /\ [][VNext]_vars

(***************************************************************************)
(* The profile harvest: tiktok_page.scrape_profile, _scroll and _collect   *)
(***************************************************************************)
Heights == 1..MaxHeight

\* an entry of itemList: an object (id 0: no id, or an id that is None or
\* empty), or a value that is no object
ProfileItems ==
    [kind : {"video"}, id : 0..MaxProfileId] \cup {[kind |-> "not_dict", id |-> 0]}

\* hasMore: true, false (or null, 0), or missing
ProfileResponses ==
    [itemList : SeqsUpTo(ProfileItems, MaxProfileItems), hasMore : {"true", "false", "missing"}]

\* if vid and vid not in seen
is_new_whatever_seen(vid, sn) == vid # 0

is_new(vid, sn) == vid # 0 /\ vid \notin sn

\* for v in video_list: vid = v.get("id"); if vid and vid not in seen: ...
RECURSIVE CollectItems(_, _, _, _)
CollectItems(video_list_, k, its, sn) ==
    IF k > Len(video_list_) THEN [items |-> its, seen |-> sn, raised |-> FALSE]
    ELSE LET v == video_list_[k]
         IN  IF v.kind = "not_dict" THEN [items |-> its, seen |-> sn, raised |-> TRUE]
             ELSE IF is_new(v.id, sn)
             THEN CollectItems(video_list_, k + 1, Append(its, v.id), sn \cup {v.id})
             ELSE CollectItems(video_list_, k + 1, its, sn)

\* idle = idle + 1 if h_curr == h_prev else 0
idle_never_resets(idle_, h_curr, h_prev_) == idle_ + 1
idle_next(idle_, h_curr, h_prev_) == IF h_curr = h_prev_ THEN idle_ + 1 ELSE 0

\* while not done.is_set() and idle < MAX_IDLE_STEPS
scroll_continues(done_, idle_) == ~done_ /\ idle_ < MAX_IDLE_STEPS

PInit ==
    /\ ppc = "goto" /\ items = <<>> /\ seen = {} /\ done = FALSE
    /\ idle = 0 /\ h_prev = 0 /\ n_steps = 0 /\ last_change = 0 /\ pending = 0
    /\ CIdle /\ VIdle /\ NIdle /\ SIdle /\ XIdle

\* page.on("response", ...): an item_list response arrives, asyncio.create_task
\* starts a _collect task, which runs up to its only await, await resp.text()
on_response ==
    /\ ppc \in {"goto", "scroll", "wait"}
    /\ pending < MaxPending
    /\ pending' = pending + 1
    /\ UNCHANGED <<cvars, vvars, nvars, svars, xvars, ppc, items, seen, done, idle, h_prev, n_steps,
                   last_change>>

\* the event loop resumes any one of the suspended _collect tasks with the text
\* of its response: everything after the await runs in one piece
collect ==
    /\ ppc \in {"goto", "scroll", "wait"}
    /\ pending > 0
    /\ pending' = pending - 1
    /\ \E resp \in ProfileResponses :
         LET st == CollectItems(resp.itemList, 1, items, seen)
         IN  /\ items' = st.items
             /\ seen' = st.seen
             /\ done' = (done \/ (~st.raised /\ resp.hasMore = "false"))
    /\ UNCHANGED <<cvars, vvars, nvars, svars, xvars, ppc, idle, h_prev, n_steps, last_change>>

\* page.goto, the first wait, and the start of _scroll up to its first loop test
scrape_profile_goto ==
    /\ ppc = "goto"
    /\ \E h \in Heights, raised \in BOOLEAN :
         IF raised
         THEN /\ ppc' = "done"
              /\ UNCHANGED <<idle, h_prev>>
         ELSE /\ idle' = 0
              /\ h_prev' = h
              /\ ppc' = IF scroll_continues(done, 0) THEN "scroll" ELSE "wait"
    /\ UNCHANGED <<cvars, vvars, nvars, svars, xvars, items, seen, done, n_steps, last_change, pending>>

\* the steps are numbered 1, 2, ... up to MaxScrollSteps; from then on the
\* numbering slides with the loop, the newest step keeping number MaxScrollSteps
StepsAfter(n) == IF n = MaxScrollSteps THEN n ELSE n + 1

\* one iteration of the loop of _scroll, up to the next loop test
scroll ==
    /\ ppc = "scroll"
    /\ \E h_curr \in Heights, raised \in BOOLEAN :
         IF raised
         THEN /\ ppc' = "done"
              /\ UNCHANGED <<idle, h_prev, n_steps, last_change>>
         ELSE /\ idle' = idle_next(idle, h_curr, h_prev)
              /\ h_prev' = h_curr
              /\ n_steps' = StepsAfter(n_steps)
              /\ last_change' = IF h_curr # h_prev THEN StepsAfter(n_steps)
                                ELSE IF n_steps = MaxScrollSteps THEN last_change - 1
                                ELSE last_change
              /\ ppc' = IF scroll_continues(done, idle_next(idle, h_curr, h_prev))
                        THEN "scroll" ELSE "wait"
    /\ UNCHANGED <<cvars, vvars, nvars, svars, xvars, items, seen, done, pending>>

\* the wait after _scroll, browser.close(), return items
scrape_profile_close ==
    /\ ppc = "wait"
    /\ ppc' = "done"
    /\ UNCHANGED <<cvars, vvars, nvars, svars, xvars, items, seen, done, idle, h_prev, n_steps, last_change,
                   pending>>

PNext ==
    \/ on_response
    \/ collect
    \/ scrape_profile_goto
    \/ scroll
    \/ scrape_profile_close

SpecProfile == PInit /\ [][PNext]_vars

\* the event loop resumes scrape_profile whenever the browser call it awaits
\* completes; responses need not arrive
SpecProfileFair ==
    /\ PInit /\ [][PNext]_vars
    /\ WF_vars(scrape_profile_goto)
    /\ WF_vars(scroll)
    /\ WF_vars(scrape_profile_close)

(***************************************************************************)
(* The record normalizers                                                  *)
(***************************************************************************)
\* the raw values of a counter in stats, and in statsV2
CounterVals == {Missing, None, IntVal(0), IntVal(5), IntVal(20), IntVal(100), StrVal(7), Text}
V2Vals == {Missing, StrVal(7)}
FollowerVals == {Missing, IntVal(1000)}

RawCounters == [v2 : V2Vals, v1 : CounterVals]

\* a raw TikTok item: per counter its value in statsV2 and in stats (repost is
\* stats.repostCount for tiktok_query, collectCount for the other two), and
\* authorStats.followerCount
TikTokItems ==
    [digg : RawCounters, comment : RawCounters, share : RawCounters, repost : RawCounters,
     followerCount : FollowerVals]

\* Python truth value
Truthy(x) ==
    CASE x.t \in {"missing", "none"} -> FALSE
      [] x.t = "int" -> x.v # 0
      [] OTHER -> TRUE

\* a or b, where a missing key reads as None
Or(a, b) == IF Truthy(a) THEN a ELSE IF b.t = "missing" THEN None ELSE b

\* d.get(key, 0)
GetOr0(x) == IF x.t = "missing" THEN IntVal(0) ELSE x

\* tiktok_page._to_int: None for None and for what int() rejects
tp_to_int(val) == IF val.t \in {"int", "str"} THEN IntVal(val.v) ELSE None

\* _to_int of _parse_video_from_api: 0 for None and for what int() rejects
sa_to_int(val) == IF val.t \in {"int", "str"} THEN IntVal(val.v) ELSE IntVal(0)

\* the number of decimal digits of n >= 0
RECURSIVE Digits(_)
Digits(n) == IF n < 10 THEN 1 ELSE 1 + Digits(n \div 10)

RECURSIVE Pow10(_)
Pow10(k) == IF k = 0 THEN 1 ELSE 10 * Pow10(k - 1)

TypeError == [t |-> "TypeError", v |-> 0]

\* Python's a + b: the sum of two ints, the concatenation of two strings, a
\* TypeError for an int and a string
Plus(a, b) ==
    IF a.t = "TypeError" \/ b.t = "TypeError" THEN TypeError
    ELSE IF a.t = "int" /\ b.t = "int" THEN IntVal(a.v + b.v)
    ELSE IF a.t = "str" /\ b.t = "str" THEN StrVal(a.v * Pow10(Digits(b.v)) + b.v)
    ELSE IF a.t \in {"str", "text"} /\ b.t \in {"str", "text"} THEN Text
    ELSE TypeError

\* x or 0
Or0(x) == IF Truthy(x) THEN x ELSE IntVal(0)

\* tiktok_query.calculate_engagement
calculate_engagement(likes, comments, shares, reposts) ==
    Plus(Plus(Plus(Or0(likes), Or0(comments)), Or0(shares)), Or0(reposts))

\* tiktok_query.calculate_engagement_rate raises a TypeError for a string
\* engagement or follower count when followers is not empty
engagement_rate_raises(engagement, followers) ==
    Truthy(followers) /\ (followers.t # "int" \/ engagement.t # "int")

\* tiktok_page.tiktok_to_row
tiktok_to_row(v) ==
    LET likes == tp_to_int(Or(v.digg.v2, v.digg.v1))
        comments == tp_to_int(Or(v.comment.v2, v.comment.v1))
        shares == tp_to_int(Or(v.share.v2, v.share.v1))
        reposts == tp_to_int(Or(v.repost.v2, v.repost.v1))
    IN  [emitted |-> TRUE, like_count |-> likes, comment_count |-> comments,
         share_count |-> shares, repost_count |-> reposts,
         total_engagement |->
             Plus(Plus(Plus(Or0(likes), Or0(comments)), Or0(shares)), Or0(reposts))]

\* tiktok_query._extract_video_data: the counters of stats as they are
extract_video_row(item) ==
    LET likes == GetOr0(item.digg.v1)
        comments == GetOr0(item.comment.v1)
        shares == GetOr0(item.share.v1)
        reposts == GetOr0(item.repost.v1)
        followers == GetOr0(item.followerCount)
        total_engagement == calculate_engagement(likes, comments, shares, reposts)
    IN  IF total_engagement.t = "TypeError" \/ engagement_rate_raises(total_engagement, followers)
        THEN NoTikTokRow
        ELSE [emitted |-> TRUE, like_count |-> likes, comment_count |-> comments,
              share_count |-> shares, repost_count |-> reposts,
              total_engagement |-> total_engagement]

\* TikTokStandaloneScraper._parse_video_from_api; total_engagement is its local
\* engagement, of which the record keeps the rate only
parse_video_row(item) ==
    LET likes == sa_to_int(Or(item.digg.v2, item.digg.v1))
        comments == sa_to_int(Or(item.comment.v2, item.comment.v1))
        shares == sa_to_int(Or(item.share.v2, item.share.v1))
        reposts == sa_to_int(Or(item.repost.v2, item.repost.v1))
    IN  [emitted |-> TRUE, like_count |-> likes, comment_count |-> comments,
         share_count |-> shares, repost_count |-> reposts,
         total_engagement |-> Plus(Plus(Plus(likes, comments), shares), reposts)]

\* a raw Instagram row of the DataFrame: "absent" reads as None (no such
\* column), "nan" is the float NaN pandas puts where other rows have a value
TypeVals == {"Image", "Story", "absent", "nan"}
IdVals == {"absent", "nan", "123"}
CodeVals == {"absent", "", "abc123"}
LikesVals == {"absent", "nan", "7"}
CaptionVals == {"absent", "nan", "text"}

InstagramItems ==
    [type : TypeVals, id : IdVals, pk : IdVals, shortCode : CodeVals, code : CodeVals,
     likesCount : LikesVals, caption : CaptionVals]

\* Python truth value of a raw Instagram value: NaN is true
IgTruthy(x) == x \notin {"absent", ""}

\* post_id = row.get('id') or row.get('pk') or row.get('shortCode') or row.get('code'):
\* the field the value comes from
post_id_from(row) ==
    IF IgTruthy(row.id) THEN "id"
    ELSE IF IgTruthy(row.pk) THEN "pk"
    ELSE IF IgTruthy(row.shortCode) THEN "shortCode"
    ELSE "code"

\* if not post_id or pd.isna(post_id): continue
post_id_skipped(row) ==
    LET post_id == row[post_id_from(row)]
    IN  ~IgTruthy(post_id) \/ post_id = "nan"

\* safe_int(row.get('likesCount'))
safe_int(value) == IF value = "7" THEN 7 ELSE 0

\* safe_str(row.get('caption'), "")
safe_str(value) == IF value \in {"absent", "nan"} THEN "" ELSE value

\* the type test of InstagramScraper.normalize_and_insert_posts: a row without a
\* type is skipped, .strip() of a NaN raises
ig_type_accepted(post_type) == post_type = "Image"

\* the type test of normalize_profile_data: no test for a row without a type;
\* .lower() of a NaN raises when the record is built
igs_type_accepted(post_type) == post_type \in {"Image", "absent"}

PostRecord(row, accepted) ==
    IF ~accepted \/ post_id_skipped(row) THEN NoInstagramRow
    ELSE [emitted |-> TRUE, id_from |-> post_id_from(row),
          likes_count |-> safe_int(row.likesCount), caption |-> safe_str(row.caption)]

NInit ==
    /\ \/ /\ normalizer \in {"tiktok_to_row", "_extract_video_data", "_parse_video_from_api"}
          /\ tt_raw \in TikTokItems
          /\ ig_raw = NoInstagramItem
       \/ /\ normalizer \in {"normalize_and_insert_posts", "normalize_profile_data"}
          /\ ig_raw \in InstagramItems
          /\ tt_raw = NoTikTokItem
    /\ normalized = FALSE
    /\ tt_row = NoTikTokRow
    /\ ig_row = NoInstagramRow
    /\ CIdle /\ VIdle /\ PIdle /\ SIdle /\ XIdle

n_tiktok_to_row ==
    /\ normalizer = "tiktok_to_row" /\ ~normalized
    /\ tt_row' = tiktok_to_row(tt_raw)
    /\ normalized' = TRUE
    /\ UNCHANGED <<cvars, vvars, pvars, svars, xvars, normalizer, tt_raw, ig_raw, ig_row>>

n_extract_video_data ==
    /\ normalizer = "_extract_video_data" /\ ~normalized
    /\ tt_row' = extract_video_row(tt_raw)
    /\ normalized' = TRUE
    /\ UNCHANGED <<cvars, vvars, pvars, svars, xvars, normalizer, tt_raw, ig_raw, ig_row>>

n_parse_video_from_api ==
    /\ normalizer = "_parse_video_from_api" /\ ~normalized
    /\ tt_row' = parse_video_row(tt_raw)
    /\ normalized' = TRUE
    /\ UNCHANGED <<cvars, vvars, pvars, svars, xvars, normalizer, tt_raw, ig_raw, ig_row>>

n_normalize_and_insert_posts ==
    /\ normalizer = "normalize_and_insert_posts" /\ ~normalized
    /\ ig_row' = PostRecord(ig_raw, ig_type_accepted(ig_raw.type))
    /\ normalized' = TRUE
    /\ UNCHANGED <<cvars, vvars, pvars, svars, xvars, normalizer, tt_raw, tt_row, ig_raw>>

n_normalize_profile_data ==
    /\ normalizer = "normalize_profile_data" /\ ~normalized
    /\ ig_row' = PostRecord(ig_raw, igs_type_accepted(ig_raw.type))
    /\ normalized' = TRUE
    /\ UNCHANGED <<cvars, vvars, pvars, svars, xvars, normalizer, tt_raw, tt_row, ig_raw>>

NNext ==
    \/ n_tiktok_to_row
    \/ n_extract_video_data
    \/ n_parse_video_from_api
    \/ n_normalize_and_insert_posts
    \/ n_normalize_profile_data

SpecNorm == NInit /\ [][NNext]_vars

(***************************************************************************)
(* TikTokStandaloneScraper.scrape: parse the input, harvest the videos,    *)
(* harvest the comments of each video, save the result                     *)
(***************************************************************************)
InputKinds == {"tiktok_url", "other_url", "query"}

\* a text of a payload; a JSON escape such as "\ud83d" alone decodes to a
\* string with a lone surrogate
Texts == {"plain", "lone_surrogate"}

\* the records scrape_page / scrape_query return, as far as scrape uses them
ScrapedVideos == [video_id : VideoIds, desc : Texts]

ScrapedVideoLists ==
    {s \in SeqsUpTo(ScrapedVideos, MaxBatch) :
        \A a, b \in 1..Len(s) : s[a].video_id = s[b].video_id => a = b}

\* the comment texts scrape_comments_for_video returns for one video
CommentTexts == SeqsUpTo(Texts, MaxPageLen)

\* parse_input: "page", "query", or the ValueError of a URL that is not TikTok's
parse_input(s) ==
    CASE s = "tiktok_url" -> Return("page")
      [] s = "other_url"  -> Raise("ValueError")
      [] OTHER            -> Return("query")

\* f.write of a text file opened with encoding='utf-8'
utf8_encodable(t) == t # "lone_surrogate"

\* json.dump(data, f, ensure_ascii=False) into that file (the output
\* directory is taken to be writable)
json_dump(vids, comms) ==
    IF /\ \A k \in 1..Len(vids) : utf8_encodable(vids[k].desc)
       /\ \A k \in 1..Len(comms) : \A c \in 1..Len(comms[k]) : utf8_encodable(comms[k][c])
    THEN Return("saved")
    ELSE Raise("UnicodeEncodeError")

SInit ==
    /\ spc = "parse"
    /\ input_str \in InputKinds
    /\ scrape_comments \in BOOLEAN
    /\ s_videos = <<>> /\ s_comments = <<>>
    /\ network_accessed = FALSE /\ escaped = "none"
    /\ CIdle /\ VIdle /\ PIdle /\ NIdle /\ XIdle

\* input_data = self.parse_input(input_str)
scrape_parse_input ==
    /\ spc = "parse"
    /\ LET r == parse_input(input_str)
       IN  IF r.kind = "raise"
           THEN /\ spc' = "raised"
                /\ escaped' = r.exc
           ELSE /\ spc' = "videos"
                /\ UNCHANGED escaped
    /\ UNCHANGED <<cvars, vvars, pvars, nvars, xvars, input_str, scrape_comments, s_videos,
                   s_comments, network_accessed>>

\* videos = self.scrape_page(...) / self.scrape_query(...): page.goto, the
\* scroll loop and the response handlers all sit in try blocks, so the call
\* returns a list whatever the page and the responses do (the browser itself
\* is taken to start)
scrape_videos ==
    /\ spc = "videos"
    /\ \E vids \in ScrapedVideoLists :
         /\ s_videos' = vids
         /\ network_accessed' = TRUE
         /\ spc' = IF scrape_comments /\ vids # <<>> THEN "comments" ELSE "save"
    /\ UNCHANGED <<cvars, vvars, pvars, nvars, xvars, input_str, scrape_comments, s_comments,
                   escaped>>

\* one iteration of the comment loop of scrape: scrape_comments_for_video
\* returns a record in every case
scrape_video_comments ==
    /\ spc = "comments"
    /\ \E texts \in CommentTexts :
         /\ s_comments' = Append(s_comments, texts)
         /\ spc' = IF Len(s_comments) + 1 < Len(s_videos) THEN "comments" ELSE "save"
    /\ UNCHANGED <<cvars, vvars, pvars, nvars, xvars, input_str, scrape_comments, s_videos,
                   network_accessed, escaped>>

\* output_path = self.save_to_json(result, output_dir); return output_path
scrape_save_to_json ==
    /\ spc = "save"
    /\ LET r == json_dump(s_videos, s_comments)
       IN  IF r.kind = "raise"
           THEN /\ spc' = "raised"
                /\ escaped' = r.exc
           ELSE /\ spc' = "returned"
                /\ UNCHANGED escaped
    /\ UNCHANGED <<cvars, vvars, pvars, nvars, xvars, input_str, scrape_comments, s_videos,
                   s_comments, network_accessed>>

SNext ==
    \/ scrape_parse_input
    \/ scrape_videos
    \/ scrape_video_comments
    \/ scrape_save_to_json

SpecScrape == SInit /\ [][SNext]_vars

(***************************************************************************)
(* The identifier test of the video paths: how a raw id is looked up in    *)
(* the seen-set and what id the emitted record gets                        *)
(***************************************************************************)
\* a raw id as JSON delivers it: the number n or the string of its digits
RawIds == [n : 1..MaxRawId, repr : {"int", "str"}]

RawIdLists == SeqsUpTo(RawIds, MaxRawLen)

\* Python's x in a_set: an int and a str are never equal
py_in(x, a_set) == x \in a_set

\* str(video_id)
py_str(x) == [n |-> x.n, repr |-> "str"]

\* the canonical string form of an identifier
Canonical(x) == x.n

DInit ==
    /\ d_impl \in {"tiktok_query", "tiktok_page", "standalone_page", "standalone_query"}
    /\ d_raw \in RawIdLists
    /\ d_k = 0 /\ d_seen = {} /\ d_emitted = <<>>
    /\ CIdle /\ VIdle /\ PIdle /\ NIdle /\ SIdle /\ RIdle /\ HIdle /\ TIdle /\ GIdle /\ FIdle

\* tiktok_query._process_api_response: if item and item.get('id') not in
\* self.processed_ids; the record gets 'video_id': item.get('id')
tq_test_item ==
    /\ d_impl = "tiktok_query" /\ d_k < Len(d_raw)
    /\ LET id == d_raw[d_k + 1]
       IN  IF py_in(id, d_seen)
           THEN UNCHANGED <<d_seen, d_emitted>>
           ELSE /\ d_seen' = d_seen \cup {id}
                /\ d_emitted' = Append(d_emitted, id)
    /\ d_k' = d_k + 1
    /\ UNCHANGED <<cvars, vvars, pvars, nvars, svars, rvars, hvars, tvars, gvars, fvars, d_impl, d_raw>>

\* tiktok_page._collect: if vid and vid not in seen: items.append(v); seen.add(vid)
tp_test_item ==
    /\ d_impl = "tiktok_page" /\ d_k < Len(d_raw)
    /\ LET vid == d_raw[d_k + 1]
       IN  IF py_in(vid, d_seen)
           THEN UNCHANGED <<d_seen, d_emitted>>
           ELSE /\ d_seen' = d_seen \cup {vid}
                /\ d_emitted' = Append(d_emitted, vid)
    /\ d_k' = d_k + 1
    /\ UNCHANGED <<cvars, vvars, pvars, nvars, svars, rvars, hvars, tvars, gvars, fvars, d_impl, d_raw>>

\* TikTokStandaloneScraper, handle_response of scrape_page and
\* _process_api_response: item.get('id') not in processed_ids;
\* processed_ids.add(item['id']); the record gets 'video_id': str(video_id)
sa_test_item ==
    /\ d_impl \in {"standalone_page", "standalone_query"} /\ d_k < Len(d_raw)
    /\ LET id == d_raw[d_k + 1]
       IN  IF py_in(id, d_seen)
           THEN UNCHANGED <<d_seen, d_emitted>>
           ELSE /\ d_seen' = d_seen \cup {id}
                /\ d_emitted' = Append(d_emitted, py_str(id))
    /\ d_k' = d_k + 1
    /\ UNCHANGED <<cvars, vvars, pvars, nvars, svars, rvars, hvars, tvars, gvars, fvars, d_impl, d_raw>>

DNext ==
    \/ tq_test_item
    \/ tp_test_item
    \/ sa_test_item

SpecDedup == DInit /\ [][DNext]_vars

(***************************************************************************)
(* The engagement rate of a TikTok record                                  *)
(***************************************************************************)
\* the raw follower count / view count
Denominators ==
    {Missing, None, StrVal(MaxDenominator)} \cup {IntVal(n) : n \in 0..MaxDenominator}

\* round((engagement / followers) * 100, 2), in hundredths of a percent, for
\* followers > 0
rate_rounded(engagement, followers) ==
    Rate((2 * engagement * 10000 + followers) \div (2 * followers))

\* tiktok_page.tiktok_to_row: followers = _to_int(...); engagement_rate = None;
\* if followers and followers > 0: engagement_rate = round(...)
tp_engagement_rate(total_engagement, followers_raw) ==
    LET followers == tp_to_int(followers_raw)
    IN  IF Truthy(followers) /\ followers.v > 0
        THEN rate_rounded(total_engagement, followers.v)
        ELSE None

\* tiktok_query.calculate_engagement_rate on author_stats.get('followerCount',
\* 0): a string follower count makes followers > 0 raise, and
\* _extract_video_data makes no record
calculate_engagement_rate(engagement, followers_raw) ==
    LET followers == GetOr0(followers_raw)
    IN  IF ~Truthy(followers) THEN Rate(0)
        ELSE IF followers.t # "int" THEN NoRate
        ELSE IF followers.v > 0 THEN rate_rounded(engagement, followers.v)
        ELSE Rate(0)

\* TikTokStandaloneScraper._parse_video_from_api: views = _to_int(...);
\* engagement_rate = (engagement / views * 100) if views > 0 else 0.0; the
\* record keeps round(engagement_rate, 2)
sa_engagement_rate(engagement, views_raw) ==
    LET views == sa_to_int(views_raw)
    IN  IF views.v > 0 THEN rate_rounded(engagement, views.v) ELSE Rate(0)

RInit ==
    /\ r_impl \in {"tiktok_to_row", "calculate_engagement_rate", "_parse_video_from_api"}
    /\ r_total \in 0..MaxEngagement
    /\ r_den \in Denominators
    /\ r_rate = NoRate
    /\ CIdle /\ VIdle /\ PIdle /\ NIdle /\ SIdle /\ DIdle /\ HIdle /\ TIdle /\ GIdle /\ FIdle

r_tiktok_to_row ==
    /\ r_impl = "tiktok_to_row" /\ r_rate = NoRate
    /\ r_rate' = tp_engagement_rate(r_total, r_den)
    /\ UNCHANGED <<cvars, vvars, pvars, nvars, svars, dvars, hvars, tvars, gvars, fvars, r_impl, r_total, r_den>>

r_calculate_engagement_rate ==
    /\ r_impl = "calculate_engagement_rate" /\ r_rate = NoRate
    /\ r_rate' = calculate_engagement_rate(r_total, r_den)
    /\ UNCHANGED <<cvars, vvars, pvars, nvars, svars, dvars, hvars, tvars, gvars, fvars, r_impl, r_total, r_den>>

r_parse_video_from_api ==
    /\ r_impl = "_parse_video_from_api" /\ r_rate = NoRate
    /\ r_rate' = sa_engagement_rate(r_total, r_den)
    /\ UNCHANGED <<cvars, vvars, pvars, nvars, svars, dvars, hvars, tvars, gvars, fvars, r_impl, r_total, r_den>>

RNext ==
    \/ r_tiktok_to_row
    \/ r_calculate_engagement_rate
    \/ r_parse_video_from_api

SpecRate == RInit /\ [][RNext]_vars

(***************************************************************************)
(* Hashtag and mention extraction (InstagramApifyAutomation and            *)
(* InstagramStandaloneScraper: the same code)                              *)
(***************************************************************************)
\* a token that re.findall returns: "#music" is word 1 in lower case, "#Music"
\* the same word capitalized
Tokens == [word : 1..MaxWord, capital : BOOLEAN]

FoundLists == SeqsUpTo(Tokens, MaxTokens)

\* list(a_set): the elements of the set in the order of its hash table, which
\* is any order
ListsOfSet(a_set) ==
    {s \in SeqsUpTo(a_set, Cardinality(a_set)) :
        Len(s) = Cardinality(a_set) /\ Range(s) = a_set}

\* a_list[:n]
py_slice_to(a_list, n) == SubSeq(a_list, 1, IF Len(a_list) < n THEN Len(a_list) ELSE n)

HInit ==
    /\ h_fn \in {"_extract_hashtags", "_extract_mentions"}
    /\ h_found \in FoundLists
    /\ h_done = FALSE /\ h_result = <<>>
    /\ CIdle /\ VIdle /\ PIdle /\ NIdle /\ SIdle /\ DIdle /\ RIdle /\ TIdle /\ GIdle /\ FIdle

\* hashtags = re.findall(pattern, text); return list(set(hashtags))[:30]
extract_hashtags ==
    /\ h_fn = "_extract_hashtags" /\ ~h_done
    /\ \E in_set_order \in ListsOfSet(Range(h_found)) :
         h_result' = py_slice_to(in_set_order, TAG_LIMIT)
    /\ h_done' = TRUE
    /\ UNCHANGED <<cvars, vvars, pvars, nvars, svars, dvars, rvars, tvars, gvars, fvars, h_fn, h_found>>

\* mentions = re.findall(pattern, text); return list(set(mentions))[:30]
extract_mentions ==
    /\ h_fn = "_extract_mentions" /\ ~h_done
    /\ \E in_set_order \in ListsOfSet(Range(h_found)) :
         h_result' = py_slice_to(in_set_order, TAG_LIMIT)
    /\ h_done' = TRUE
    /\ UNCHANGED <<cvars, vvars, pvars, nvars, svars, dvars, rvars, tvars, gvars, fvars, h_fn, h_found>>

HNext ==
    \/ extract_hashtags
    \/ extract_mentions

SpecTags == HInit /\ [][HNext]_vars

(***************************************************************************)
(* Free-text fields: the caption of an Instagram post, the caption of a    *)
(* post inside a hashtag record, the description of a TikTok video         *)
(***************************************************************************)
\* a text is known by its length and by the number of escaped line breaks in
\* it (two characters each); a field can also be absent (None)
RawLengths ==
    {0} \cup {n \in (EXCERPT_LIMIT - MaxSlack)..(EXCERPT_LIMIT + MaxSlack) : TRUE}
        \cup {n \in (CAPTION_LIMIT - MaxSlack)..(CAPTION_LIMIT + MaxSlack) : TRUE}

RawTexts ==
    {[kind |-> "none"]}
        \cup {x \in [kind : {"str"}, len : RawLengths, escapes : 0..MaxEscapes] :
                2 * x.escapes <= x.len}

Min(a, b) == IF a < b THEN a ELSE b

\* len(text[:n])
len_slice_to(length, n) == Min(length, n)

\* len(text.replace('\\n', '\n')): each escaped line break becomes one character
len_unescaped(x) == x.len - x.escapes

\* safe_str(row.get('caption'), "")[:2000]
post_caption(x) ==
    IF x.kind = "none" THEN len_slice_to(0, CAPTION_LIMIT)
    ELSE len_slice_to(x.len, CAPTION_LIMIT)

\* caption = ''; if post.get('caption'): caption = str(...).replace(...)[:500]
hashtag_post_caption(x) ==
    IF x.kind = "none" \/ x.len = 0 THEN 0
    ELSE len_slice_to(len_unescaped(x), EXCERPT_LIMIT)

\* str(row.get('caption', '')).replace('\\n', '\n')[:500]; str(None) is 'None'
ia_hashtag_post_caption(x) ==
    IF x.kind = "none" THEN len_slice_to(4, EXCERPT_LIMIT)
    ELSE len_slice_to(len_unescaped(x), EXCERPT_LIMIT)

\* _extract_desc(v): v.get("desc", ""), as it is
extract_desc(x) == IF x.kind = "none" THEN 0 ELSE x.len

TInit ==
    /\ t_fn \in {"normalize_and_insert_posts", "normalize_and_insert_hashtag",
                 "normalize_hashtag_data", "tiktok_to_row"}
    /\ t_raw \in RawTexts
    /\ t_done = FALSE /\ t_out = 0
    /\ CIdle /\ VIdle /\ PIdle /\ NIdle /\ SIdle /\ DIdle /\ RIdle /\ HIdle /\ GIdle /\ FIdle

t_normalize_and_insert_posts ==
    /\ t_fn = "normalize_and_insert_posts" /\ ~t_done
    /\ t_out' = post_caption(t_raw)
    /\ t_done' = TRUE
    /\ UNCHANGED <<cvars, vvars, pvars, nvars, svars, dvars, rvars, hvars, gvars, fvars, t_fn, t_raw>>

t_normalize_and_insert_hashtag ==
    /\ t_fn = "normalize_and_insert_hashtag" /\ ~t_done
    /\ t_out' = hashtag_post_caption(t_raw)
    /\ t_done' = TRUE
    /\ UNCHANGED <<cvars, vvars, pvars, nvars, svars, dvars, rvars, hvars, gvars, fvars, t_fn, t_raw>>

t_normalize_hashtag_data ==
    /\ t_fn = "normalize_hashtag_data" /\ ~t_done
    /\ t_out' = ia_hashtag_post_caption(t_raw)
    /\ t_done' = TRUE
    /\ UNCHANGED <<cvars, vvars, pvars, nvars, svars, dvars, rvars, hvars, gvars, fvars, t_fn, t_raw>>

\* "description": _extract_desc(v)
t_tiktok_to_row ==
    /\ t_fn = "tiktok_to_row" /\ ~t_done
    /\ t_out' = extract_desc(t_raw)
    /\ t_done' = TRUE
    /\ UNCHANGED <<cvars, vvars, pvars, nvars, svars, dvars, rvars, hvars, gvars, fvars, t_fn, t_raw>>

TNext ==
    \/ t_normalize_and_insert_posts
    \/ t_normalize_and_insert_hashtag
    \/ t_normalize_hashtag_data
    \/ t_tiktok_to_row

SpecText == TInit /\ [][TNext]_vars

(***************************************************************************)
(* The hashtag record (InstagramApifyAutomation.normalize_and_insert_hashtag *)
(* and InstagramStandaloneScraper.normalize_hashtag_data)                  *)
(***************************************************************************)
\* a raw post: kind "other" is an entry that is no post (no dict / a type that
\* is not a post type), id 0 an entry without id and shortCode, owner 0 an
\* entry with an empty ownerUsername
RawPosts == [kind : {"post", "other"}, id : 0..MaxPostId, likes : 0..MaxCount,
             comments : 0..MaxCount, owner : 0..MaxOwner]

RawPostLists == SeqsUpTo(RawPosts, MaxRollupPosts)

\* the entries the loop body does not skip with continue
is_stored(post) == post.kind = "post" /\ post.id # 0

\* the clean post object
post_data(post) == [id |-> post.id, likesCount |-> post.likes,
                    commentsCount |-> post.comments, ownerUsername |-> post.owner]

RECURSIVE clean_posts(_)
clean_posts(posts) ==
    IF posts = <<>> THEN <<>>
    ELSE LET rest == clean_posts(Tail(posts))
         IN IF is_stored(posts[1]) THEN <<post_data(posts[1])>> \o rest ELSE rest

\* total_engagement += likes + comments, once for every appended post
RECURSIVE sum_engagement(_)
sum_engagement(stored) ==
    IF stored = <<>> THEN 0
    ELSE stored[1].likesCount + stored[1].commentsCount + sum_engagement(Tail(stored))

\* if owner_username: unique_users.add(owner_username)
unique_users(stored) ==
    {stored[k].ownerUsername : k \in 1..Len(stored)} \ {0}

\* total / count as a fraction
Fraction(total, count) == [num |-> total, den |-> count]

GInit ==
    /\ g_fn \in {"normalize_and_insert_hashtag", "normalize_hashtag_data"}
    /\ g_top \in RawPostLists
    /\ g_latest \in RawPostLists
    /\ Len(g_top) + Len(g_latest) <= MaxRollupPosts
    /\ g_fn = "normalize_hashtag_data" => g_top = <<>>
    /\ g_done = FALSE /\ g_record = NoRecord
    /\ CIdle /\ VIdle /\ PIdle /\ NIdle /\ SIdle /\ DIdle /\ RIdle /\ HIdle /\ TIdle /\ FIdle

g_normalize_and_insert_hashtag ==
    /\ g_fn = "normalize_and_insert_hashtag" /\ ~g_done
    /\ LET top_posts_data == clean_posts(py_slice_to(g_top, ROLLUP_POSTS_LIMIT))
           posts_data == clean_posts(py_slice_to(g_latest, ROLLUP_POSTS_LIMIT))
           total_engagement == sum_engagement(top_posts_data) + sum_engagement(posts_data)
           users == unique_users(top_posts_data) \cup unique_users(posts_data)
       IN g_record' =
            IF posts_data = <<>> /\ top_posts_data = <<>> THEN NoRecord
            ELSE [built |-> TRUE,
                  posts_count |-> Len(posts_data) + Len(top_posts_data),
                  latest_posts |-> posts_data,
                  top_posts |-> top_posts_data,
                  total_engagement |-> total_engagement,
                  avg_engagement |-> Fraction(total_engagement,
                                        Len(posts_data) + Len(top_posts_data)),
                  unique_users_count |-> Cardinality(users)]
    /\ g_done' = TRUE
    /\ UNCHANGED <<cvars, vvars, pvars, nvars, svars, dvars, rvars, hvars, tvars, fvars,
                   g_fn, g_top, g_latest>>

g_normalize_hashtag_data ==
    /\ g_fn = "normalize_hashtag_data" /\ ~g_done
    /\ LET posts_data == clean_posts(g_latest)
           total_engagement == sum_engagement(posts_data)
       IN g_record' =
            IF posts_data = <<>> THEN NoRecord
            ELSE [built |-> TRUE,
                  posts_count |-> Len(posts_data),
                  posts |-> posts_data,
                  total_engagement |-> total_engagement,
                  avg_engagement |-> Fraction(total_engagement, Len(posts_data)),
                  unique_users_count |-> Cardinality(unique_users(posts_data))]
    /\ g_done' = TRUE
    /\ UNCHANGED <<cvars, vvars, pvars, nvars, svars, dvars, rvars, hvars, tvars, fvars,
                   g_fn, g_top, g_latest>>

GNext ==
    \/ g_normalize_and_insert_hashtag
    \/ g_normalize_hashtag_data

SpecRollup == GInit /\ [][GNext]_vars

(***************************************************************************)
(* The relevance filter (RelevanceFilter.filter_content)                   *)
(***************************************************************************)
\* an entry of the list the classifier returns: relevant, and whether its
\* confidence reaches self.confidence_threshold
Classifications == [relevant : BOOLEAN, confident : BOOLEAN]

\* the entry classify_batch makes for every post of a batch that failed:
\* relevant False, confidence 0.0
DefaultClassification == [relevant |-> FALSE, confident |-> FALSE]

\* posts[i:i + self.batch_size]: the number of posts in the batch
batch_len(start) == Min(batch_size, total_posts - start)

\* the lists classify_batch can return for a batch: what json.loads made of the
\* answer of the model, a list of any length, or the default list when
\* anything raised
classify_batch(start) ==
    SeqsUpTo(Classifications, batch_len(start) + 1)
        \cup {[k \in 1..batch_len(start) |-> DefaultClassification]}

\* the branch of the if / elif / else that a classification takes
category(classification) ==
    IF classification.relevant /\ classification.confident THEN "relevant"
    ELSE IF classification.relevant THEN "borderline"
    ELSE "irrelevant"

\* for idx, post in enumerate(posts): if idx < len(all_classifications): ...
\* the posts that are appended to the list of a category, in order
RECURSIVE posts_of(_, _, _)
posts_of(cat, idx, classifications) ==
    IF idx > total_posts THEN <<>>
    ELSE (IF idx <= Len(classifications) /\ category(classifications[idx]) = cat
          THEN <<idx>> ELSE <<>>)
         \o posts_of(cat, idx + 1, classifications)

FInit ==
    /\ f_pc = "load"
    /\ total_posts \in 0..MaxFilterPosts
    /\ batch_size \in 1..MaxFilterBatch
    /\ f_i = 0 /\ all_classifications = <<>>
    /\ relevant_posts = <<>> /\ borderline_posts = <<>> /\ irrelevant_posts = <<>>
    /\ CIdle /\ VIdle /\ PIdle /\ NIdle /\ SIdle /\ DIdle /\ RIdle /\ HIdle /\ TIdle /\ GIdle

\* the input file is loaded; without posts the empty result is returned
f_load ==
    /\ f_pc = "load"
    /\ f_pc' = IF total_posts = 0 THEN "done" ELSE "batches"
    /\ UNCHANGED <<cvars, vvars, pvars, nvars, svars, dvars, rvars, hvars, tvars, gvars,
                   total_posts, batch_size, f_i, all_classifications,
                   relevant_posts, borderline_posts, irrelevant_posts>>

\* one iteration of for i in range(0, total_posts, self.batch_size)
f_classify_batch ==
    /\ f_pc = "batches"
    /\ \E classifications \in classify_batch(f_i) :
         all_classifications' = all_classifications \o classifications
    /\ f_i' = f_i + batch_size
    /\ f_pc' = IF f_i + batch_size < total_posts THEN "batches" ELSE "apply"
    /\ UNCHANGED <<cvars, vvars, pvars, nvars, svars, dvars, rvars, hvars, tvars, gvars,
                   total_posts, batch_size,
                   relevant_posts, borderline_posts, irrelevant_posts>>

\* the classifications are applied to the posts and the result is built
f_apply ==
    /\ f_pc = "apply"
    /\ relevant_posts' = posts_of("relevant", 1, all_classifications)
    /\ borderline_posts' = posts_of("borderline", 1, all_classifications)
    /\ irrelevant_posts' = posts_of("irrelevant", 1, all_classifications)
    /\ f_pc' = "done"
    /\ UNCHANGED <<cvars, vvars, pvars, nvars, svars, dvars, rvars, hvars, tvars, gvars,
                   total_posts, batch_size, f_i, all_classifications>>

FNext ==
    \/ f_load
    \/ f_classify_batch
    \/ f_apply

SpecFilter == FInit /\ [][FNext]_vars

(***************************************************************************)
(* Claims about the comment harvest and the batch loops                    *)
(***************************************************************************)
MaxAttempts == IF impl = "tiktok_comment" THEN TC_MAX_ATTEMPTS ELSE SA_MAX_ATTEMPTS

InCommentHarvest == impl \in {"tiktok_comment", "standalone"} /\ pc \in {"fetch", "process", "return"}

\* C2: within the harvest of one video no two emitted comment records carry the
\* same comment identifier, whatever pages the transport returns.
C2_UniqueCommentIds ==
    InCommentHarvest => \A c \in CommentIds : Count(all_comments, c) <= 1

\* C3: when every network call of a page fetch fails transiently, the page fetch
\* has made exactly maxAttempts network calls when it ends (5 for fetch_page, 3 for
\* _fetch_comment_page), and the harvest of the video then ends with no item.
C3_BoundedRetry ==
    (/\ InCommentHarvest
     /\ pc \in {"process", "return"}
     /\ call_log # <<>>
     /\ \A k \in 1..Len(call_log) : TransientFailure(call_log[k]))
    => /\ Len(call_log) = MaxAttempts
       /\ fetches = 1 => all_comments = <<>>

\* C4: a page fetch whose network call failed does not hand its caller the empty
\* successful page {"comments": [], "has_more": 0}.
C4_FailureIsNotAnEmptyPage ==
    (/\ InCommentHarvest
     /\ pc = "process"
     /\ call_log # <<>>
     /\ Failed(call_log[Len(call_log)]))
    => data # EmptyPage

\* C6: once a page of a video reported has_more = 0 (the k-th page), that page is
\* the last one: exactly k page fetches were issued for the video and no further
\* fetch is pending, whatever max_pages is.
C6_ExhaustionTermination ==
    InCommentHarvest =>
        \A k \in 1..Len(has_more_log) :
            ~has_more_log[k] => /\ k = Len(has_more_log)
                                /\ fetches = k
                                /\ pc # "fetch"

\* a harvest that ended at its third page because that page reported
\* has_more = 0, one page below the cap
C6_Witness ==
    /\ InCommentHarvest /\ pc = "return"
    /\ max_pages = 4
    /\ has_more_log = <<TRUE, TRUE, FALSE>>
    /\ fetches = 3

DeliveredIds == {v \in VideoIds : deliveries[v] >= 1 /\ v \notin malformed_ids}

\* C1 (tiktok_query and tiktok_standalone harvests): when a harvest has ended
\* below its max_videos cap, every id that was handed to the response processing
\* two or more times (on two pages, or by processing a captured response again),
\* each time in a valid item, has exactly one record in the returned list.
C1_ExactlyOneRecord ==
    (vpc = "done" /\ Len(videos_data) < max_videos)
        => \A v \in DeliveredIds : deliveries[v] >= 2 => Count(result, v) = 1

\* C5: the returned list holds at most max_videos records, and exactly
\* max_videos when more than max_videos unique ids were handed in valid items to the
\* response processing before the loop ended.
C5_CapEnforcement ==
    vpc = "done"
        => /\ Len(result) <= max_videos
           /\ Cardinality(DeliveredIds) > max_videos => Len(result) = max_videos

(***************************************************************************)
(* Claims about the profile scroll loop                                    *)
(***************************************************************************)
\* C7: the idle counter of _scroll equals the number of most recent
\* consecutive scroll steps whose height equalled the height before them, and
\* no further step runs once the counter has reached MAX_IDLE_STEPS.
C7_IdleScrollExhaustion ==
    /\ idle = n_steps - last_change
    /\ idle <= MAX_IDLE_STEPS
    /\ ppc = "scroll" => idle < MAX_IDLE_STEPS

C7_Witness ==
    /\ ppc = "wait"
    /\ ~done
    /\ last_change = 2
    /\ idle = MAX_IDLE_STEPS

(***************************************************************************)
(* Claims about the record normalizers                                     *)
(***************************************************************************)
\* the value is None, missing or NaN
IgEmpty(x) == x \in {"absent", "nan"}

\* C8: an Instagram row with a valid type whose id and pk are missing, null or
\* NaN and whose shortCode is "abc123" is emitted, with an identifier that
\* comes from shortCode, likes_count 0 for a missing or NaN likesCount and
\* caption "" for a missing caption.
C8_IdentifierFallback ==
    (/\ normalized
     /\ ig_raw.type = "Image"
     /\ IgEmpty(ig_raw.id) /\ IgEmpty(ig_raw.pk)
     /\ ig_raw.shortCode = "abc123")
        => /\ ig_row.emitted
           /\ ig_row.id_from = "shortCode"
           /\ IgEmpty(ig_raw.likesCount) => ig_row.likes_count = 0
           /\ ig_raw.caption = "absent" => ig_row.caption = ""

\* the number a resolved counter stands for, None counting as 0
CounterNumber(x) == IF x.t \in {"int", "str"} THEN x.v ELSE 0

\* C9: the engagement total of every emitted TikTok row is the number
\* likes + comments + shares + reposts of the row's counters.
C9_EngagementTotal ==
    tt_row.emitted
        => tt_row.total_engagement =
               IntVal(CounterNumber(tt_row.like_count) + CounterNumber(tt_row.comment_count)
                      + CounterNumber(tt_row.share_count) + CounterNumber(tt_row.repost_count))

(***************************************************************************)
(* Claims about TikTokStandaloneScraper.scrape                             *)
(***************************************************************************)
\* C11: whatever the transport does and whatever the payloads look like, the
\* only error that leaves scrape is the invalid-target error of parse_input,
\* and it is raised before any page is opened or request sent.
C11_OnlyInvalidTargetEscapes ==
    spc = "raised" => (escaped = "ValueError" /\ ~network_accessed)

(***************************************************************************)
(* Claims about the comment harvest: results, aborts, cursors, pacing      *)
(***************************************************************************)
\* the harvest of target k of the batch met a failed fetch or an exception
Aborted(k) == k \in failed_targets

\* C12: the returned result tells why the crawl ended. Of two harvests of one
\* batch that both returned no items, one ended by an aborted fetch and the
\* other did not (the feed was exhausted or the page cap reached), the two
\* returned results differ. At the return of the second harvest total_comments
\* still is what the first one returned.
C12_ResultTellsWhyItEnded ==
    (/\ impl = "tiktok_comment" /\ pc = "return" /\ i = 2
     /\ total_comments = 0 /\ all_comments = <<>>
     /\ Aborted(1) # Aborted(2))
    => tc_harvest_result(total_comments) # tc_harvest_result(total_fetched)

(***************************************************************************)
(* Claims about the profile harvest: termination, handler interleaving     *)
(***************************************************************************)
\* C13: every crawl loop is bounded. For the profile harvest: whatever the
\* heights the page reports and whatever the responses say, _scroll performs
\* finitely many steps and scrape_profile ends.
C13_ScrollLoopEnds == <>(ppc = "done")

\* the response of the page fetch that has just returned was a failure
LastFetchFailed == call_log # <<>> /\ Failed(call_log[Len(call_log)])

\* C14: when a page fetch fails after at least one page of the same video was
\* harvested, the step that handles the failure ends the harvest of the video
\* (no further fetch is issued) and keeps every comment harvested so far.
C14_PartialResultOnAbort ==
    [][(InCommentHarvest /\ pc = "process" /\ fetches >= 2 /\ LastFetchFailed)
       => (/\ pc' = "return"
           /\ fetches' = fetches
           /\ all_comments' = all_comments
           /\ total_fetched' = total_fetched)]_vars

C14_Witness ==
    /\ InCommentHarvest /\ pc = "return"
    /\ fetches = 2 /\ LastFetchFailed
    /\ all_comments # <<>>
    /\ total_fetched = Len(all_comments)

\* C15: within one comment harvest no two page fetches use the same cursor
\* value: the harvest never goes on to fetch with the cursor it has just
\* fetched with (a page that reports has_more = 1 but carries no cursor or the
\* same cursor ends the harvest).
C15_CursorAdvances ==
    [][(InCommentHarvest /\ pc = "process" /\ pc' = "fetch") => cursor' # cursor]_vars

\* C16: in tiktok_comment.scrape_comments_for_video the crawl state recorded
\* through save_crawl_state changes only after a successful page: the step
\* that handles a failed page fetch leaves it as it was.
C16_StateKeptOnFailure ==
    [][(impl = "tiktok_comment" /\ pc = "process" /\ LastFetchFailed)
       => crawl_state' = crawl_state]_vars

\* C17: for every maxPages >= 0, zero included, the number of page fetches
\* issued for one video never exceeds maxPages, in both comment harvesters.
C17_PageCapEnforcement ==
    InCommentHarvest => fetches <= max_pages

\* C18: between any two consecutive page fetch calls of a batch, of the same
\* video or the last page of one video and the first page of the next, at
\* least one rate-limit sleep is performed: a page fetch call never starts
\* unless a sleep followed the page fetch call before it.
C18_SleepBetweenFetches ==
    (impl \in {"tiktok_comment", "standalone"} /\ pc = "fetch" /\ attempt_number = 0) => slept

C18_Witness ==
    /\ impl \in {"tiktok_comment", "standalone"} /\ pc = "fetch" /\ attempt_number = 0
    /\ i = 2 /\ fetches = 0
    /\ slept
    /\ 1 \in failed_targets

\* C19: however the _collect tasks of one scrape_profile call interleave at
\* their suspension points, items never holds two entries with the same id and
\* every id in items is in seen.
C19_HandlerInterleaving ==
    /\ \A a, b \in 1..Len(items) : items[a] = items[b] => a = b
    /\ Range(items) \subseteq seen

C19_Witness ==
    /\ ppc \in {"scroll", "wait"}
    /\ pending = MaxPending
    /\ items # <<>>
    /\ Range(items) = seen

C21_NoRecordWithoutId ==
    /\ \A k \in 1..Len(videos_data) : videos_data[k] # 0
    /\ \A k \in 1..Len(result) : result[k] # 0

(***************************************************************************)
(* Claims about the identifier test                                        *)
(***************************************************************************)
\* C22: identifiers are compared in canonical string form: of the raw items
\* looked at so far, those that carry the same platform id, as a number or as
\* a string, have yielded one record only.
C22_CanonicalIdComparison ==
    \A a, b \in 1..Len(d_emitted) :
        Canonical(d_emitted[a]) = Canonical(d_emitted[b]) => a = b

(***************************************************************************)
(* Claims about the numbers of the emitted records                         *)
(***************************************************************************)
CounterFields == {"like_count", "comment_count", "share_count", "repost_count"}

RawField(f) ==
    CASE f = "like_count"    -> tt_raw.digg
      [] f = "comment_count" -> tt_raw.comment
      [] f = "share_count"   -> tt_raw.share
      [] OTHER               -> tt_raw.repost

\* C23: every counter of an emitted TikTok record is an integer, and it is 0
\* when the raw field is missing or None in both stats and statsV2; no emitted
\* counter is None or a raw value that is no number.
C23_NumericDefaults ==
    (normalized /\ tt_row.emitted)
        => \A f \in CounterFields :
              /\ tt_row[f].t = "int"
              /\ (RawField(f).v1.t \in {"missing", "none"} /\ RawField(f).v2.t = "missing")
                     => tt_row[f].v = 0

(***************************************************************************)
(* Claims about the engagement rate                                        *)
(***************************************************************************)
\* the denominator as a number: 0 when it is missing or None
DenominatorNumber == IF r_den.t \in {"int", "str"} THEN r_den.v ELSE 0

\* C24: the engagement_rate of an emitted record is the hundredth of a percent
\* nearest to total / denominator x 100 when the denominator is positive, and
\* 0 when the denominator is 0 or missing.
C24_EngagementRate ==
    (r_rate # NoRate)
        => /\ r_rate.t = "number"
           /\ IF DenominatorNumber > 0
              THEN LET diff == r_rate.v * DenominatorNumber - r_total * 10000
                   IN  2 * diff <= DenominatorNumber /\ -2 * diff <= DenominatorNumber
              ELSE r_rate.v = 0

(***************************************************************************)
(* Claims about hashtag and mention extraction                             *)
(***************************************************************************)
\* C25: the extraction returns at most 30 entries, and no two returned
\* entries are equal when compared without regard to case.
C25_CappedAndCaseInsensitive ==
    h_done
        => /\ Len(h_result) <= 30
           /\ \A a, b \in 1..Len(h_result) :
                 h_result[a].word = h_result[b].word => a = b

\* the place of the first occurrence of a token in what re.findall gave
FirstSeenAt(tok) == CHOOSE k \in 1..Len(h_found) :
                       h_found[k] = tok /\ \A j \in 1..(k - 1) : h_found[j] # tok

\* C26: the returned entries appear in the order of their first occurrence in
\* the text.
C26_FirstSeenOrder ==
    h_done
        => \A a, b \in 1..Len(h_result) :
              a < b => FirstSeenAt(h_result[a]) < FirstSeenAt(h_result[b])

(***************************************************************************)
(* Claims about the free-text fields                                       *)
(***************************************************************************)
\* C27: whatever the length of the raw text, an emitted Instagram post
\* caption has at most 2000 characters, a caption stored inside a hashtag
\* record has at most 500, and an emitted TikTok description has at most 2000.
C27_FreeTextBounds ==
    t_done
        => /\ t_fn = "normalize_and_insert_posts" => t_out <= 2000
           /\ t_fn \in {"normalize_and_insert_hashtag", "normalize_hashtag_data"}
                 => t_out <= 500
           /\ t_fn = "tiktok_to_row" => t_out <= 2000

(***************************************************************************)
(* Claims about the hashtag record                                         *)
(***************************************************************************)
\* the posts stored in the record
StoredPosts ==
    IF g_fn = "normalize_and_insert_hashtag"
    THEN g_record.top_posts \o g_record.latest_posts
    ELSE g_record.posts

\* C28: in a built hashtag record posts_count is the number of stored posts,
\* total_engagement the sum of likesCount + commentsCount over them,
\* avg_engagement their quotient, unique_users_count the number of distinct
\* non-empty owners (at most posts_count), and each distinct post is stored
\* and counted once.
C28_RollupConsistency ==
    g_done /\ g_record.built
        => /\ g_record.posts_count = Len(StoredPosts)
           /\ g_record.total_engagement = sum_engagement(StoredPosts)
           /\ g_record.avg_engagement
                 = Fraction(g_record.total_engagement, g_record.posts_count)
           /\ g_record.unique_users_count
                 = Cardinality({StoredPosts[k].ownerUsername : k \in 1..Len(StoredPosts)} \ {0})
           /\ g_record.unique_users_count <= g_record.posts_count
           /\ \A a, b \in 1..Len(StoredPosts) :
                 StoredPosts[a].id = StoredPosts[b].id => a = b

\* C29 (_process_api_response of tiktok_query and tiktok_standalone): seen
\* implies normalized. After any sequence of processed responses every id in
\* processed_ids belongs to an item that was handed to the normalizer: it has a
\* record in videos_data, or the normalizer rejected it (a field of the item
\* made it throw). The id None (0), which belongs to no valid item, is left
\* out.
C29_SeenImpliesNormalized ==
    vimpl \in {"tiktok_query", "standalone_query"}
        => \A v \in processed_ids :
              \/ Count(videos_data, v) >= 1
              \/ v \in malformed_ids
              \/ v = 0

(***************************************************************************)
(* Claims about the relevance filter                                       *)
(***************************************************************************)
\* C30: after filter_content every input post is in exactly one of
\* relevant_posts, borderline_posts and irrelevant_posts, and the three counts
\* sum to total_posts, whatever lists the classifier returned for the batches.
C30_RelevancePartition ==
    f_pc = "done"
        => /\ \A post \in 1..total_posts :
                 Count(relevant_posts, post) + Count(borderline_posts, post)
                    + Count(irrelevant_posts, post) = 1
           /\ Len(relevant_posts) + Len(borderline_posts) + Len(irrelevant_posts)
                 = total_posts

====
